---- MODULE Spec2Model ----
(***************************************************************************)
(* Order synchronisation and reconciliation of the warehouse back-office   *)
(* (src/app.py): the extraction script and its CSV file, the in-memory     *)
(* orders cache, the incremental reconciliation that persists the lines    *)
(* that disappeared, and the per-department / per-order status roll-up.    *)
(***************************************************************************)
EXTENDS Integers, Sequences, FiniteSets, Bags, TLC

\* ------------------------------------------------------------------
\* Bounds of the model
\* ------------------------------------------------------------------
\* most lines one extraction returns
MaxLines == 2
\* most list objects ever installed in ORDERS_CACHE during one run
MaxGen == 4
\* most rows ever inserted in order_edits during one run
MaxEdits == 2
\* greatest quantity a cached line is let to reach
MaxQta == 3

\* ------------------------------------------------------------------
\* Value domains of the ERP data
\* ------------------------------------------------------------------
Serials == {"A", "B"}
Articoli == {"a1", "a2"}
\* quantities are counted in ten-thousandths, the grain of the threshold
\* 0.0001 of the residues: PerUnit is the quantity 1.0
PerUnit == 10000
Quantita == {PerUnit}
Unita == {"pz"}
Reparti == {"REP01", "REP02"}

\* ORDER BY M.MVSERIAL of the extraction query
SerialOrd == [s \in Serials |-> IF s = "A" THEN 1 ELSE 2]

\* the rows the ERP result set is made of: order A with articles a1 and a2,
\* order B with article a1
ErpLine ==
    { l \in [seriale : Serials, codice_articolo : Articoli,
             quantita : Quantita, unita_misura : Unita] :
        l.seriale = "B" => l.codice_articolo = "a1" }

\* what one run of the extraction query can return: at most MaxLines rows,
\* ordered by serial
ErpSnapshots ==
    { s \in UNION { [1..n -> ErpLine] : n \in 0..MaxLines } :
        \A i \in 1..(Len(s) - 1) :
            SerialOrd[s[i].seriale] <= SerialOrd[s[i + 1].seriale] }

\* ------------------------------------------------------------------
\* CSV file: csv.writer stores the quantity as text, _load_csv parses
\* the numeric fields back with float()
\* ------------------------------------------------------------------
\* the decimals of a quantity below 1.0, without trailing zeros: 5000 -> "5"
RECURSIVE Decimals(_, _)
Decimals(f, scale) ==
    IF f = 0 THEN ""
    ELSE ToString(f \div (scale \div 10))
            \o Decimals(f % (scale \div 10), scale \div 10)

\* a quantity text float() refuses
BadText == "n/a"

\* None or "" in the place of a quantity
NoQuantita == -1

\* a text in the place of a quantity
BadQuantita == -2

\* str() of a quantity as the file holds it: 1.0 -> "1", 0.5 -> "0.5", and
\* None -> ""
CsvText(q) ==
    IF q = NoQuantita THEN ""
    ELSE IF q = BadQuantita THEN BadText
    ELSE IF q % PerUnit = 0 THEN ToString(q \div PerUnit)
    ELSE ToString(q \div PerUnit) \o "." \o Decimals(q % PerUnit, PerUnit)

CsvRow(l) == [seriale |-> l.seriale, codice_articolo |-> l.codice_articolo,
              quantita |-> CsvText(l.quantita), unita_misura |-> l.unita_misura]

WriteCsv(rows) == [i \in 1..Len(rows) |-> CsvRow(rows[i])]

\* ordini_clienti.csv after one run of estrai_ordini.py: snap is the whole
\* result set when the script ends with exit code 0, and the rows that reached
\* the file when it fails (a prefix of a result set is a member of
\* ErpSnapshots too)
CsvAfterScript(snap) == WriteCsv(snap)

\* faulty variant: check=False, the exit code is ignored
_run_script_nocheck(ok) == FALSE

\* subprocess.run(..., check=True): raises when the exit code is not 0
_run_script(ok) == ~ok

\* float(text); a text that is no number is left as it is (ValueError: pass)
ParseFloat(txt) ==
    IF \E n \in 0..9 : CsvText(n * PerUnit) = txt
    THEN PerUnit * (CHOOSE n \in 0..9 : CsvText(n * PerUnit) = txt)
    ELSE BadQuantita

_load_csv(file) ==
    [i \in 1..Len(file) |->
        [file[i] EXCEPT !.quantita =
            IF file[i].quantita # "" THEN ParseFloat(file[i].quantita)
                                     ELSE NoQuantita]]

\* ------------------------------------------------------------------
\* Department enrichment
\* ------------------------------------------------------------------
\* None: the value of a field the line has not, or that holds no value
None == "None"

\* rows of the article reference table (ArticoloReparto.tipo_collo_1): a3 has
\* a row without department, a4..a7 are articles of REP01, every other code
\* has no row
ArticoloReparto ==
    [a \in Articoli \cup {"a3", "a4", "a5", "a6", "a7"} |->
        IF a = "a2" THEN "REP02" ELSE IF a = "a3" THEN "" ELSE "REP01"]

\* columns unita_misura_2, operatore_conversione and fattore_conversione of
\* the rows: a1 is also counted in kg, two to the unit; a4 in boxes of two
\* units; a5 has an operator the code does not know, a6 no factor (NULL or
\* 0), a7 no operator
SecondUnit ==
    [a \in DOMAIN ArticoloReparto |->
        IF a = "a1"
        THEN [unita_misura_2 |-> "kg", operatore_conversione |-> "*",
              fattore_conversione |-> 2]
        ELSE IF a = "a4"
        THEN [unita_misura_2 |-> "ct", operatore_conversione |-> "/",
              fattore_conversione |-> 2]
        ELSE IF a = "a5"
        THEN [unita_misura_2 |-> "kg", operatore_conversione |-> "+",
              fattore_conversione |-> 2]
        ELSE IF a = "a6"
        THEN [unita_misura_2 |-> "kg", operatore_conversione |-> "*",
              fattore_conversione |-> 0]
        ELSE IF a = "a7"
        THEN [unita_misura_2 |-> "kg", operatore_conversione |-> None,
              fattore_conversione |-> 2]
        ELSE [unita_misura_2 |-> None, operatore_conversione |-> None,
              fattore_conversione |-> 0]]

\* the article codes on which the query of the reference table raises
LookupRaises == {"a9"}

\* str.strip() of an article code
Strip(codice) == IF codice \in {"", " "} THEN "" ELSE codice

\* faulty variant: every article code is looked up
IsBlank_never(codice) == FALSE

\* not codice_articolo: nothing is set on the line
IsBlank(codice) == Strip(codice) = ""

\* round(x, 3) of a quantity in ten-thousandths, the half to the even digit
Round3(x) ==
    IF x % 10 > 5 \/ (x % 10 = 5 /\ (x \div 10) % 2 = 1)
    THEN ((x \div 10) + 1) * 10
    ELSE (x \div 10) * 10

\* faulty variant: the line of an unknown article takes the second unit of a1
NotFound_second(order) ==
    [codice_reparto |-> "REP05", unita_misura_2 |-> "kg",
     quantita_um2 |-> order.quantita]

\* no row for the article, or the query raised: the default department, no
\* second unit
NotFound(order) ==
    [codice_reparto |-> "REP05", unita_misura_2 |-> None,
     quantita_um2 |-> NoQuantita]

\* order.get("quantita") taken as a condition: None, "" and 0.0 are false, a
\* text that is not empty is true
Truthy(quantita) == quantita \notin {NoQuantita, 0}

\* faulty variant: an operator other than "/" multiplies
Arithmetic_multiplies(operatore, quantita, fattore) ==
    IF quantita = BadQuantita THEN NoQuantita
    ELSE IF operatore = "/" THEN Round3(quantita \div fattore)
    ELSE Round3(quantita * fattore)

\* the inner try: a text divided or multiplied by a number raises TypeError,
\* which leaves no converted quantity, and so does any other operator
Arithmetic(operatore, quantita, fattore) ==
    IF operatore = "/"
    THEN (IF quantita = BadQuantita THEN NoQuantita
          ELSE Round3(quantita \div fattore))
    ELSE IF operatore = "*"
    THEN (IF quantita = BadQuantita THEN NoQuantita
          ELSE Round3(quantita * fattore))
    ELSE NoQuantita

\* the second unit and the converted quantity of a line whose article has a
\* row
Converted(order, row) ==
    IF row.unita_misura_2 = None
    THEN [unita_misura_2 |-> None, quantita_um2 |-> NoQuantita]
    ELSE [unita_misura_2 |-> row.unita_misura_2,
          quantita_um2 |->
              IF /\ row.operatore_conversione # None
                 /\ row.fattore_conversione # 0
                 /\ Truthy(order.quantita)
              THEN Arithmetic(row.operatore_conversione, order.quantita,
                              row.fattore_conversione)
              ELSE NoQuantita]

\* the fields one pass of the enrichment loop sets on a line; no_department
\* is what a row without tipo_collo_1 gives
Enriched(order, no_department) ==
    LET codice == Strip(order.codice_articolo)
    IN  IF IsBlank(order.codice_articolo)
        THEN [codice_reparto |-> None, unita_misura_2 |-> None,
              quantita_um2 |-> NoQuantita]
        ELSE IF codice \in LookupRaises THEN NotFound(order)
        ELSE IF codice \in DOMAIN ArticoloReparto
        THEN [codice_reparto |->
                 IF ArticoloReparto[codice] # "" THEN ArticoloReparto[codice]
                                                 ELSE no_department]
             @@ Converted(order, SecondUnit[codice])
        ELSE NotFound(order)

\* enrichment loop of refresh_orders
EnrichFull(orders) ==
    [i \in 1..Len(orders) |->
        [seriale |-> orders[i].seriale,
         codice_articolo |-> orders[i].codice_articolo,
         quantita |-> orders[i].quantita,
         unita_misura |-> orders[i].unita_misura]
        @@ Enriched(orders[i], "REP05")]

\* enrichment loop of refresh_orders_incremental
EnrichIncr(orders) ==
    [i \in 1..Len(orders) |->
        [seriale |-> orders[i].seriale,
         codice_articolo |-> orders[i].codice_articolo,
         quantita |-> orders[i].quantita,
         unita_misura |-> orders[i].unita_misura]
        @@ Enriched(orders[i], "")]

\* ------------------------------------------------------------------
\* Diffing of refresh_orders_incremental
\* ------------------------------------------------------------------
\* str(float): 5.0 -> "5.0"; a quantity that is a text is that text
FloatStr(q) ==
    IF q = NoQuantita THEN ""
    ELSE IF q = BadQuantita THEN BadText
    ELSE IF q % PerUnit = 0 THEN ToString(q \div PerUnit) \o ".0"
    ELSE ToString(q \div PerUnit) \o "." \o Decimals(q % PerUnit, PerUnit)

\* f"{codice_articolo}_{quantita}_{unita_misura}"
Identifier(riga) ==
    riga.codice_articolo \o "_" \o FloatStr(riga.quantita) \o "_" \o riga.unita_misura

SerialsOf(orders) == { orders[i].seriale : i \in DOMAIN orders }

\* current_orders_by_serial / new_orders_by_serial
OrdersBySerial(orders) ==
    [s \in SerialsOf(orders) |-> SelectSeq(orders, LAMBDA o : o.seriale = s)]

\* current_identifiers / new_identifiers
Identifiers(righe) == { Identifier(righe[i]) : i \in DOMAIN righe }

\* faulty variant: the line-count fallback is missing
OrderChanged_setonly(current_righe, new_righe) ==
    Identifiers(current_righe) # Identifiers(new_righe)

\* the comparison of one order present on both sides
OrderChanged(current_righe, new_righe) ==
    \/ Identifiers(current_righe) # Identifiers(new_righe)
    \/ Len(current_righe) # Len(new_righe)

\* the orders flagged by the line-count test alone (elif current_lines != new_lines)
CountChanged(current_orders, new_orders) ==
    LET current_orders_by_serial == OrdersBySerial(current_orders)
        new_orders_by_serial == OrdersBySerial(new_orders)
    IN  { s \in DOMAIN new_orders_by_serial \cap DOMAIN current_orders_by_serial :
            /\ Identifiers(current_orders_by_serial[s])
                  = Identifiers(new_orders_by_serial[s])
            /\ Len(current_orders_by_serial[s]) # Len(new_orders_by_serial[s]) }

\* modified_orders: loop over new_orders_by_serial.keys()
ModifiedOrders(current_orders, new_orders) ==
    LET current_orders_by_serial == OrdersBySerial(current_orders)
        new_orders_by_serial == OrdersBySerial(new_orders)
    IN  { s \in DOMAIN new_orders_by_serial \cap DOMAIN current_orders_by_serial :
            OrderChanged(current_orders_by_serial[s], new_orders_by_serial[s]) }

\* faulty variant: no bootstrap path
CacheEmpty_never(current_orders) == FALSE

\* if not current_orders
CacheEmpty(current_orders) == current_orders = << >>

\* faulty variant: the cache is replaced on every cycle
NeedsReplace_always(modified_orders, current_orders, new_orders) == TRUE

\* if orders_modified or new_count != current_count
NeedsReplace(modified_orders, current_orders, new_orders) ==
    \/ modified_orders # {}
    \/ Len(new_orders) # Len(current_orders)

\* faulty variant: the difference taken the wrong way round
RemovedIdentifiers_swapped(current_righe, new_righe) ==
    Identifiers(new_righe) \ Identifiers(current_righe)

\* removed_identifiers = current_identifiers - new_identifiers
RemovedIdentifiers(current_righe, new_righe) ==
    Identifiers(current_righe) \ Identifiers(new_righe)

\* removed_lines of one modified order, each marked riga["removed"] = True
RemovedLines(current_orders, new_orders, s) ==
    LET cur == OrdersBySerial(current_orders)[s]
        new == IF s \in SerialsOf(new_orders)
               THEN OrdersBySerial(new_orders)[s] ELSE << >>
        removed_identifiers == RemovedIdentifiers(cur, new)
        gone == SelectSeq(cur, LAMBDA r : Identifier(r) \in removed_identifiers)
    IN  [i \in 1..Len(gone) |->
            [seriale |-> gone[i].seriale,
             codice_articolo |-> gone[i].codice_articolo,
             quantita |-> gone[i].quantita,
             unita_misura |-> gone[i].unita_misura,
             codice_reparto |-> gone[i].codice_reparto,
             removed |-> TRUE]]

\* the lines the save loop visits, over all modified orders
AllRemovedLines(modified_orders, current_orders, new_orders) ==
    LET current_orders_by_serial == OrdersBySerial(current_orders)
        new_orders_by_serial == OrdersBySerial(new_orders)
    IN  SelectSeq(current_orders, LAMBDA r :
            /\ r.seriale \in modified_orders
            /\ Identifier(r) \in RemovedIdentifiers(
                   current_orders_by_serial[r.seriale],
                   new_orders_by_serial[r.seriale]))

\* faulty variant: the dedup lookup finds nothing
Existing_never(table, riga) == FALSE

\* ModifiedOrderLine.query.filter_by(seriale, codice_articolo, quantita,
\* unita_misura).first() on the table plus the rows pending in the session
\* (the query autoflushes)
Existing(table, riga) ==
    \E m \in BagToSet(table) :
        /\ m.seriale = riga.seriale
        /\ m.codice_articolo = riga.codice_articolo
        /\ m.quantita = riga.quantita
        /\ m.unita_misura = riga.unita_misura

\* ModifiedOrderLine(..., removed=True)
NewModifiedLine(riga) ==
    [seriale |-> riga.seriale, codice_articolo |-> riga.codice_articolo,
     quantita |-> riga.quantita, unita_misura |-> riga.unita_misura,
     codice_reparto |-> riga.codice_reparto, removed |-> TRUE]

\* the save loop: for each removed line, look the record up and add it when
\* absent; a save that raises (position in failed) is caught and skipped
RECURSIVE SaveLines(_, _, _, _)
SaveLines(table, lines, failed, i) ==
    IF i > Len(lines) THEN table
    ELSE IF i \in failed THEN SaveLines(table, lines, failed, i + 1)
    ELSE IF Existing(table, lines[i]) THEN SaveLines(table, lines, failed, i + 1)
    ELSE SaveLines(table (+) SetToBag({NewModifiedLine(lines[i])}),
                   lines, failed, i + 1)

\* some visited line whose record was already in the table before this cycle
DedupHit(table, lines, failed) ==
    \E i \in (1..Len(lines)) \ failed : Existing(table, lines[i])

\* faulty variant: a failed commit leaves the flushed rows in the table
CommitOutcome_norollback(table, pending, commit_ok) == pending

\* db.session.commit(), and db.session.rollback() when it raises
CommitOutcome(table, pending, commit_ok) ==
    IF commit_ok THEN pending ELSE table

\* app.config["MODIFIED_LINES"] = modified_lines, then update(modified_orders_cache)
ModifiedLinesIndex(modified_orders, current_orders, new_orders) ==
    [s \in modified_orders |-> RemovedLines(current_orders, new_orders, s)]

\* ------------------------------------------------------------------
\* State
\* ------------------------------------------------------------------
VARIABLES
    ORDERS_CACHE,    \* app.config["ORDERS_CACHE"]: the installed list of lines
    gen,             \* identity of the installed list: number of lists installed
    MODIFIED_LINES,  \* app.config["MODIFIED_LINES"]: serial -> removed lines
    mol,             \* table modified_order_lines (bag of rows)
    ev,              \* what the last operation did
    job,             \* the refresh threads: position and locals of each
    req,             \* the HTTP request in flight: position and lists read
    order_status,    \* table order_status: serial -> status, "" when no row
    order_status_by_reparto,
                     \* table order_status_by_reparto: (serial, department)
                     \* -> status, "" when no row
    order_reads,     \* table order_reads: set of (serial, user)
    order_edits,     \* table order_edits: the applied rows, in insertion order
    partial_order_residues,
                     \* table partial_order_residues (bag of rows)
    unavailable_lines,
                     \* table unavailable_lines: (serial, article, department)
                     \* -> unavailable
    worker,          \* the worker processes: what each has in its own memory
    order_archive,   \* table order_archive: serial -> lines of the snapshot
    refresh_response,
                     \* what the last GET /api/refresh answered
    status_rows,     \* tables order_status and order_status_by_reparto as the
                     \* database holds them: a bag of rows each
    session,         \* the requests that write a status, thread by thread:
                     \* position, and what the queries returned
    ordini_clienti_csv
                     \* the rows of the file ordini_clienti.csv

\* the tables written by the requests only
requestVars == << order_reads, order_edits, partial_order_residues,
                  unavailable_lines, order_archive, refresh_response, status_rows, session, ordini_clienti_csv >>

vars == << ORDERS_CACHE, gen, MODIFIED_LINES, mol, ev,
           job, req, order_status, order_status_by_reparto,
           order_reads, order_edits, partial_order_residues,
           unavailable_lines, worker, order_archive, refresh_response, status_rows, session, ordini_clienti_csv >>

\* the threads that serve the requests
Threads == {"t1", "t2"}

\* a thread that serves no request that writes a status
NoSession ==
    [pc |-> "idle", op |-> "", seriale |-> "", reparto |-> "", status |-> "",
     existing_status |-> "", general_status |-> "", tutti_pronti |-> FALSE,
     outcome |-> ""]

\* the worker processes of one deployment
Workers == {"w1", "w2"}

\* a worker process that has not imported the application yet
NotImported == [imported |-> FALSE, SCHEDULER_STARTED |-> FALSE, schedulers |-> 0]

\* a refresh thread that is not running
Idle == [pc |-> "idle", snap |-> << >>, new_orders |-> << >>,
         current_orders |-> << >>]

\* no request in flight
NoRequest == [pc |-> 0, reads |-> << >>]

NoEvent ==
    [op |-> "start", snap |-> << >>, producer_failed |-> FALSE,
     bootstrap |-> FALSE, orders_modified |-> FALSE, count_changed |-> {},
     save_failed |-> FALSE, commit_failed |-> FALSE, rolled_back |-> FALSE,
     dedup_hit |-> FALSE, swapped |-> FALSE, reparto |-> "",
     seriale |-> "", deleted |-> FALSE]

Init ==
    /\ ORDERS_CACHE = << >>
    /\ gen = 0
    /\ MODIFIED_LINES = << >>
    /\ mol = EmptyBag
    /\ ev = NoEvent
    /\ job = [j \in {"full", "incr"} |-> Idle]
    /\ req = NoRequest
    /\ order_status = [s \in Serials |-> ""]
    /\ order_status_by_reparto = [k \in Serials \X Reparti |-> ""]
    /\ order_reads = {}
    /\ order_edits = << >>
    /\ partial_order_residues = EmptyBag
    /\ unavailable_lines = {}
    /\ worker = [p \in Workers |-> NotImported]
    /\ order_archive = [s \in Serials |-> {}]
    /\ refresh_response = [has_changes |-> FALSE, modified_orders |-> {}]
    /\ status_rows = [by_reparto |-> EmptyBag, general |-> EmptyBag]
    /\ session = [t \in Threads |-> NoSession]
    /\ ordini_clienti_csv = << >>

\* ------------------------------------------------------------------
\* refresh_orders: full reload
\* ------------------------------------------------------------------
refresh_orders(snap, ok) ==
    /\ gen < MaxGen
    /\ IF _run_script(ok)
       THEN /\ UNCHANGED << ORDERS_CACHE, gen >>
            /\ ev' = [NoEvent EXCEPT !.op = "full", !.producer_failed = TRUE]
       ELSE /\ ORDERS_CACHE' = EnrichFull(_load_csv(CsvAfterScript(snap)))
            /\ gen' = gen + 1
            /\ ev' = [NoEvent EXCEPT !.op = "full", !.swapped = TRUE,
                                     !.producer_failed = ~ok]
    /\ UNCHANGED << MODIFIED_LINES, mol, job, req,
                    order_status, order_status_by_reparto,
                    requestVars, worker >>

\* ------------------------------------------------------------------
\* refresh_orders_incremental: reconciliation cycle
\* ------------------------------------------------------------------
\* the part after the snapshot is loaded and enriched; the locals of the
\* function (modified_orders, modified_lines, ...) are bound once each
Reconcile(current_orders, new_orders, run) ==
    IF CacheEmpty(current_orders)
    THEN \* cache empty: adopt the snapshot
         /\ ORDERS_CACHE' = new_orders
         /\ gen' = gen + 1
         /\ UNCHANGED << MODIFIED_LINES, mol >>
         /\ ev' = [run EXCEPT !.bootstrap = TRUE, !.swapped = TRUE]
    ELSE \E modified_orders \in {ModifiedOrders(current_orders, new_orders)} :
           IF NeedsReplace(modified_orders, current_orders, new_orders)
           THEN IF modified_orders # {}
                THEN \E lines \in {AllRemovedLines(modified_orders,
                                                   current_orders, new_orders)},
                        modified_lines \in {ModifiedLinesIndex(modified_orders,
                                                   current_orders, new_orders)},
                        count_changed \in {CountChanged(current_orders, new_orders)} :
                     \E failed \in SUBSET (1..Len(lines)), commit_ok \in BOOLEAN :
                       /\ mol' = CommitOutcome(mol, SaveLines(mol, lines, failed, 1),
                                               commit_ok)
                       /\ MODIFIED_LINES' = modified_lines
                       /\ ORDERS_CACHE' = new_orders
                       /\ gen' = gen + 1
                       /\ ev' = [run EXCEPT
                                    !.orders_modified = TRUE,
                                    !.count_changed = count_changed,
                                    !.save_failed = (failed # {}),
                                    !.commit_failed = ~commit_ok,
                                    !.rolled_back = ~commit_ok,
                                    !.dedup_hit = DedupHit(mol, lines, failed),
                                    !.swapped = TRUE]
                ELSE /\ ORDERS_CACHE' = new_orders
                     /\ gen' = gen + 1
                     /\ UNCHANGED << MODIFIED_LINES, mol >>
                     /\ ev' = [run EXCEPT !.swapped = TRUE]
           ELSE \* nothing detected
                /\ UNCHANGED << ORDERS_CACHE, gen, MODIFIED_LINES, mol >>
                /\ ev' = run

refresh_orders_incremental(snap, ok) ==
    /\ gen < MaxGen
    /\ UNCHANGED << job, req, order_status, order_status_by_reparto,
                    requestVars, worker >>
    /\ IF _run_script(ok)
       THEN /\ UNCHANGED << ORDERS_CACHE, gen, MODIFIED_LINES, mol >>
            /\ ev' = [NoEvent EXCEPT !.op = "incr", !.producer_failed = TRUE]
       ELSE \E new_orders \in {EnrichIncr(_load_csv(CsvAfterScript(snap)))} :
               Reconcile(ORDERS_CACHE, new_orders,
                         [NoEvent EXCEPT !.op = "incr", !.snap = snap,
                                         !.producer_failed = ~ok])

\* ------------------------------------------------------------------
\* Specification of the reconciliation cycles
\* ------------------------------------------------------------------
\* what a failed run of the script leaves in the file: nothing, or the rows
\* written before the failure
FailedRuns == { s \in ErpSnapshots : Len(s) <= 1 }

Next ==
    \/ \E snap \in ErpSnapshots : refresh_orders(snap, TRUE)
    \/ \E snap \in FailedRuns : refresh_orders(snap, FALSE)
    \/ \E snap \in ErpSnapshots : refresh_orders_incremental(snap, TRUE)
    \/ \E snap \in FailedRuns : refresh_orders_incremental(snap, FALSE)

Spec == Init /\ [][Next]_vars

\* ------------------------------------------------------------------
\* Properties of the reconciliation cycle
\* ------------------------------------------------------------------
\* the signature (article, quantity, unit) of a line
Sig(l) == << l.codice_articolo, l.quantita, l.unita_misura >>

LinesOf(orders, s) == SelectSeq(orders, LAMBDA o : o.seriale = s)

SigsOf(orders, s) == { Sig(orders[i]) : i \in { j \in DOMAIN orders : orders[j].seriale = s } }

\* number of rows of the table with this serial and signature
Records(table, s, sig) ==
    BagCardinality([m \in { x \in BagToSet(table) :
                                x.seriale = s /\ Sig(x) = sig } |-> table[m]])

\* the lines of a list, without the derived fields
Produced(orders) ==
    [i \in 1..Len(orders) |->
        << orders[i].seriale, orders[i].codice_articolo,
           orders[i].quantita, orders[i].unita_misura >>]

\* a step that is a completed incremental cycle on a non-empty cache
IncrementalCycle ==
    /\ ev'.op = "incr"
    /\ ~ev'.producer_failed
    /\ ORDERS_CACHE # << >>

\* the snapshot has the same orders, line counts and signatures as the cache
SameContent(orders, snap) ==
    /\ Len(orders) = Len(snap)
    /\ \A s \in Serials :
          /\ Len(LinesOf(orders, s)) = Len(LinesOf(snap, s))
          /\ SigsOf(orders, s) = SigsOf(snap, s)

\* C1: an incremental cycle on a non-empty cache whose snapshot has, for
\* every serial, the line count and the signature set of the cache leaves the
\* installed list, the Modified-Line table and MODIFIED_LINES as they were.
C1_IdempotentNoop ==
    [][ (IncrementalCycle /\ SameContent(ORDERS_CACHE, ev'.snap))
          => /\ gen' = gen
             /\ ORDERS_CACHE' = ORDERS_CACHE
             /\ mol' = mol
             /\ MODIFIED_LINES' = MODIFIED_LINES ]_vars

\* a no-op cycle on a cache of two orders, one of them with a recorded line
C1_Witness ==
    /\ ev.op = "incr" /\ ~ev.producer_failed /\ ~ev.swapped
    /\ Cardinality(SerialsOf(ORDERS_CACHE)) = 2
    /\ mol # EmptyBag
    /\ SameContent(ORDERS_CACHE, ev.snap)
    /\ SameContent(ORDERS_CACHE, ev.snap)

\* the signatures of order s that the cache has and the snapshot has not
Disappeared(orders, snap, s) == SigsOf(orders, s) \ SigsOf(snap, s)

C3_CountOnlyChange ==
    [][ IncrementalCycle
          => \A s \in SerialsOf(ORDERS_CACHE) \cap SerialsOf(ev'.snap) :
               ( /\ SigsOf(ORDERS_CACHE, s) = SigsOf(ev'.snap, s)
                 /\ Len(LinesOf(ORDERS_CACHE, s)) # Len(LinesOf(ev'.snap, s)) )
               => /\ s \in DOMAIN MODIFIED_LINES'
                  /\ gen' = gen + 1
                  /\ Produced(ORDERS_CACHE') = Produced(ev'.snap) ]_vars

\* a duplicated line went down to one and the order was flagged
C3_Witness ==
    /\ ev.op = "incr" /\ ev.swapped
    /\ \E s \in ev.count_changed :
          /\ s \in DOMAIN MODIFIED_LINES
          /\ Len(LinesOf(ORDERS_CACHE, s)) = 1

\* C4: the Modified-Line table never holds two records with the same
\* (serial, article, quantity, unit).
C4_DedupAcrossCycles ==
    \A m \in BagToSet(mol) : Records(mol, m.seriale, Sig(m)) = 1

\* a line that had been recorded disappeared again and was not recorded twice
C4_Witness ==
    /\ ev.op = "incr" /\ ev.dedup_hit /\ ~ev.commit_failed
    /\ mol # EmptyBag

\* C5: a cycle on an empty cache installs the snapshot as produced, creates no
\* Modified-Line record and does not write MODIFIED_LINES.
C5_Bootstrap ==
    [][ (ev'.op = "incr" /\ ~ev'.producer_failed /\ ORDERS_CACHE = << >>)
          => /\ Produced(ORDERS_CACHE') = Produced(ev'.snap)
             /\ gen' = gen + 1
             /\ mol' = mol
             /\ MODIFIED_LINES' = MODIFIED_LINES ]_vars

\* a snapshot with a duplicated signature was adopted by the bootstrap path
C5_Witness ==
    /\ ev.op = "incr" /\ ev.bootstrap /\ ev.swapped
    /\ Len(ORDERS_CACHE) = 2
    /\ ORDERS_CACHE[1] = ORDERS_CACHE[2]
    /\ mol = EmptyBag

\* C6: a cycle whose extraction script fails writes nothing: the installed
\* list, MODIFIED_LINES and the Modified-Line table stay as they were.
C6_ProducerFailure ==
    [][ ev'.producer_failed
          => UNCHANGED << ORDERS_CACHE, gen, MODIFIED_LINES, mol >> ]_vars

\* the script failed while a cache was installed
C6_Witness ==
    /\ ev.producer_failed
    /\ ev.op \in {"full", "incr"}
    /\ ORDERS_CACHE # << >>

\* the cycle detected changes and a save or the commit failed
PersistenceFailed ==
    /\ IncrementalCycle
    /\ ev'.orders_modified
    /\ (ev'.save_failed \/ ev'.commit_failed)

\* C7 as stated: when a save or the commit fails the transaction is rolled
\* back and the cache is still replaced.
C7_Original ==
    [][ PersistenceFailed
          => /\ ev'.rolled_back
             /\ gen' = gen + 1
             /\ Produced(ORDERS_CACHE') = Produced(ev'.snap) ]_vars

\* C7 amended: a failed commit is rolled back (the table is as before the
\* cycle), a failed save is only skipped, and in both cases the cache is
\* replaced by the snapshot.
C7_PersistenceFailure ==
    [][ PersistenceFailed
          => /\ ev'.commit_failed => (ev'.rolled_back /\ mol' = mol)
             /\ gen' = gen + 1
             /\ Produced(ORDERS_CACHE') = Produced(ev'.snap) ]_vars

\* a commit failed after a line had disappeared, and the cache was replaced
C7_Witness ==
    /\ ev.op = "incr" /\ ev.orders_modified /\ ev.commit_failed
    /\ ev.swapped
    /\ \E s \in DOMAIN MODIFIED_LINES : MODIFIED_LINES[s] # << >>

\* ------------------------------------------------------------------
\* The refresh jobs and a request as concurrent threads
\* ------------------------------------------------------------------
\* The scheduler runs refresh_orders (cron) and refresh_orders_incremental
\* (interval) on the threads of its pool, refresh_reparti calls
\* refresh_orders on the thread of its request, and the requests run on
\* threads of their own; no lock is taken anywhere.  Each function is cut
\* where another thread can run: after the script ran and the file was
\* loaded, after the cache was read, and at the assignment of the cache.

\* the result sets of the extraction used here: order A, articles in order
ConcSnapshots ==
    { s \in ErpSnapshots :
        /\ \A i \in DOMAIN s : s[i].seriale = "A"
        /\ \A i \in 1..(Len(s) - 1) :
              s[i].codice_articolo = "a1" /\ s[i + 1].codice_articolo = "a2" }

\* refresh threads between their start and their cache write
Running == { j \in DOMAIN job : job[j].pc # "idle" }

\* refresh_orders up to the enrichment: _run_script, _load_csv, departments
refresh_orders_load(snap, ok) ==
    /\ job["full"].pc = "idle"
    /\ gen + Cardinality(Running) < MaxGen
    /\ IF _run_script(ok)
       THEN /\ UNCHANGED job
            /\ ev' = [NoEvent EXCEPT !.op = "full", !.producer_failed = TRUE]
       ELSE /\ job' = [job EXCEPT !["full"] =
                          [pc |-> "loaded", snap |-> snap,
                           new_orders |-> EnrichFull(_load_csv(CsvAfterScript(snap))),
                           current_orders |-> << >>]]
            /\ UNCHANGED ev
    /\ UNCHANGED << ORDERS_CACHE, gen, MODIFIED_LINES, mol, req,
                    order_status, order_status_by_reparto,
                    requestVars, worker >>

\* app.config["ORDERS_CACHE"] = orders
refresh_orders_swap ==
    /\ job["full"].pc = "loaded"
    /\ ORDERS_CACHE' = job["full"].new_orders
    /\ gen' = gen + 1
    /\ ev' = [NoEvent EXCEPT !.op = "full", !.swapped = TRUE]
    /\ job' = [job EXCEPT !["full"] = Idle]
    /\ UNCHANGED << MODIFIED_LINES, mol, req,
                    order_status, order_status_by_reparto,
                    requestVars, worker >>

\* refresh_orders_incremental up to the enrichment
refresh_orders_incremental_load(snap, ok) ==
    /\ job["incr"].pc = "idle"
    /\ gen + Cardinality(Running) < MaxGen
    /\ IF _run_script(ok)
       THEN /\ UNCHANGED job
            /\ ev' = [NoEvent EXCEPT !.op = "incr", !.producer_failed = TRUE]
       ELSE /\ job' = [job EXCEPT !["incr"] =
                          [pc |-> "loaded", snap |-> snap,
                           new_orders |-> EnrichIncr(_load_csv(CsvAfterScript(snap))),
                           current_orders |-> << >>]]
            /\ UNCHANGED ev
    /\ UNCHANGED << ORDERS_CACHE, gen, MODIFIED_LINES, mol, req,
                    order_status, order_status_by_reparto,
                    requestVars, worker >>

\* current_orders = app.config.get("ORDERS_CACHE", [])
refresh_orders_incremental_read ==
    /\ job["incr"].pc = "loaded"
    /\ job' = [job EXCEPT !["incr"].pc = "read",
                          !["incr"].current_orders = ORDERS_CACHE]
    /\ UNCHANGED << ORDERS_CACHE, gen, MODIFIED_LINES, mol, ev, req,
                    order_status, order_status_by_reparto,
                    requestVars, worker >>

\* the rest of refresh_orders_incremental, on the list read before
refresh_orders_incremental_swap ==
    /\ job["incr"].pc = "read"
    /\ Reconcile(job["incr"].current_orders, job["incr"].new_orders,
                 [NoEvent EXCEPT !.op = "incr", !.snap = job["incr"].snap])
    /\ job' = [job EXCEPT !["incr"] = Idle]
    /\ UNCHANGED << req, order_status, order_status_by_reparto,
                    requestVars, worker >>

\* the statements of api_orders that read app.config["ORDERS_CACHE"], for a
\* user with a department (source lines)
ApiOrdersReads == << 1176, 1185, 1237 >>

\* one of the loops over app.config["ORDERS_CACHE"] of api_orders
api_orders_read ==
    /\ req.pc < Len(ApiOrdersReads)
    /\ req' = [pc |-> req.pc + 1, reads |-> Append(req.reads, ORDERS_CACHE)]
    /\ UNCHANGED << ORDERS_CACHE, gen, MODIFIED_LINES, mol, ev, job,
                    order_status, order_status_by_reparto,
                    requestVars, worker >>

\* return jsonify(...)
api_orders_return ==
    /\ req.pc = Len(ApiOrdersReads)
    /\ req' = NoRequest
    /\ UNCHANGED << ORDERS_CACHE, gen, MODIFIED_LINES, mol, ev, job,
                    order_status, order_status_by_reparto,
                    requestVars, worker >>

NextConc ==
    \/ \E snap \in ConcSnapshots : refresh_orders_load(snap, TRUE)
    \/ \E snap \in ConcSnapshots : refresh_orders_load(snap, FALSE)
    \/ refresh_orders_swap
    \/ \E snap \in ConcSnapshots : refresh_orders_incremental_load(snap, TRUE)
    \/ \E snap \in ConcSnapshots : refresh_orders_incremental_load(snap, FALSE)
    \/ refresh_orders_incremental_read
    \/ refresh_orders_incremental_swap
    \/ api_orders_read
    \/ api_orders_return

SpecConc == Init /\ [][NextConc]_vars

\* C8: the full reload and the incremental reconciliation are never both
\* between their start and their cache write.
C8_MutualExclusion ==
    ~(job["full"].pc # "idle" /\ job["incr"].pc # "idle")

\* C9: all the lists one request has read from ORDERS_CACHE are the same list.
C9_ReaderAtomicity ==
    \A i, j \in DOMAIN req.reads : req.reads[i] = req.reads[j]

\* ------------------------------------------------------------------
\* Order status and per-department status
\* ------------------------------------------------------------------
\* get_ordine_reparti: the departments of the cached lines of an order
get_ordine_reparti(orders, seriale) ==
    { orders[i].codice_reparto :
        i \in { j \in DOMAIN orders :
                  /\ orders[j].seriale = seriale
                  /\ orders[j].codice_reparto \notin {"", None} } }

\* tutti_pronti = all(status_by_reparto.get(reparto, {}).get('status') ==
\* 'pronto' for reparto in reparti_ordine)
tutti_pronti(by_reparto, seriale, reparti_ordine) ==
    \A reparto \in reparti_ordine : by_reparto[<< seriale, reparto >>] = "pronto"

\* POST /ordine/<seriale>/status by a picker of department reparto ("" when
\* the user has none), status being in_preparazione or pronto
\* ------------------------------------------------------------------
\* Partial residues of a department that declares itself ready
\* ------------------------------------------------------------------
\* 0.0001, the least residue worth a row, in ten-thousandths
Epsilon == 1

RECURSIVE SumQuantita(_, _)
SumQuantita(orders, positions) ==
    IF positions = {} THEN 0
    ELSE LET i == CHOOSE i \in positions : TRUE
         IN  orders[i].quantita + SumQuantita(orders, positions \ {i})

\* original_lines: the cached lines of the order in the user's department
original_lines(orders, seriale, reparto) ==
    { i \in DOMAIN orders :
        orders[i].seriale = seriale /\ orders[i].codice_reparto = reparto }

\* requested_by_code: per article of original_lines, the sum of the quantities
requested_by_code(orders, seriale, reparto) ==
    [code \in { orders[i].codice_articolo :
                  i \in original_lines(orders, seriale, reparto) } |->
        SumQuantita(orders,
            { i \in original_lines(orders, seriale, reparto) :
                orders[i].codice_articolo = code })]

\* ModifiedOrderLine.query.filter_by(seriale, codice_articolo).first() for
\* every article: the department of whichever matching row the database
\* returns first, "" when there is no row
FirstDepartments(table, seriale) ==
    { first \in [Articoli -> {""} \cup { m.codice_reparto : m \in BagToSet(table) }] :
        \A a \in Articoli :
            IF \E m \in BagToSet(table) :
                   m.seriale = seriale /\ m.codice_articolo = a
            THEN \E m \in BagToSet(table) :
                    /\ m.seriale = seriale /\ m.codice_articolo = a
                    /\ m.codice_reparto = first[a]
            ELSE first[a] = "" }

RECURSIVE SumQuantitaNuova(_, _)
SumQuantitaNuova(edits, positions) ==
    IF positions = {} THEN 0
    ELSE LET i == CHOOSE i \in positions : TRUE
         IN  edits[i].quantita_nuova + SumQuantitaNuova(edits, positions \ {i})

\* confirmed_by_code.get(code, 0.0): the applied edits of the order on the
\* article, but those whose modified line names another department
confirmed_by_code(edits, first, seriale, reparto, code) ==
    SumQuantitaNuova(edits,
        { i \in DOMAIN edits :
            /\ edits[i].seriale = seriale /\ edits[i].applied
            /\ edits[i].articolo = code
            /\ ~(/\ reparto # ""
                 /\ first[edits[i].articolo] # ""
                 /\ first[edits[i].articolo] # reparto) })

\* residuo = max(0.0, requested - confirmed)
residuo(requested, confirmed) ==
    IF requested - confirmed > 0 THEN requested - confirmed ELSE 0

\* faulty variant: every positive residue gets a row
Owed_positive(quantita) == quantita > 0

\* if residuo > 0.0001
Owed(quantita) == quantita > Epsilon

\* the PartialOrderResidue rows added by one computation
PartialResidues(orders, edits, first, seriale, reparto) ==
    LET requested == requested_by_code(orders, seriale, reparto)
        base(code) ==
            orders[CHOOSE i \in original_lines(orders, seriale, reparto) :
                      /\ orders[i].codice_articolo = code
                      /\ \A j \in original_lines(orders, seriale, reparto) :
                            orders[j].codice_articolo = code => i <= j]
    IN  { [seriale |-> seriale, reparto |-> reparto,
           codice_articolo |-> code,
           residuo_quantita |->
               residuo(requested[code],
                       confirmed_by_code(edits, first, seriale, reparto, code)),
           unita_misura |-> base(code).unita_misura] :
          code \in { c \in DOMAIN requested :
                       Owed(residuo(requested[c],
                                    confirmed_by_code(edits, first, seriale,
                                                      reparto, c))) } }

\* the rows of the table of one (seriale, reparto)
ResiduesOf(table, seriale, reparto) ==
    { r \in BagToSet(table) : r.seriale = seriale /\ r.reparto = reparto }

\* faulty variant: the earlier rows stay
DeleteResidues_none(table, seriale, reparto) == table

\* PartialOrderResidue.query.filter_by(seriale, reparto).delete()
DeleteResidues(table, seriale, reparto) ==
    [r \in BagToSet(table) \ ResiduesOf(table, seriale, reparto) |-> table[r]]

\* ------------------------------------------------------------------
\* POST /ordine/<seriale>/status
\* ------------------------------------------------------------------
update_order_status(seriale, reparto, status) ==
    /\ IF reparto # ""
       THEN LET by_reparto ==
                    [order_status_by_reparto EXCEPT
                        ![<< seriale, reparto >>] = status]
                pronti == tutti_pronti(by_reparto, seriale,
                              get_ordine_reparti(ORDERS_CACHE, seriale))
            IN  /\ order_status_by_reparto' = by_reparto
                /\ order_status' =
                      [order_status EXCEPT ![seriale] =
                          IF @ # ""
                          THEN (IF pronti THEN "pronto"
                                ELSE IF status = "in_preparazione"
                                     THEN "in_preparazione"
                                     ELSE @)
                          ELSE (IF pronti THEN "pronto" ELSE "in_preparazione")]
       ELSE /\ order_status' = [order_status EXCEPT ![seriale] = status]
            /\ UNCHANGED order_status_by_reparto
    /\ IF reparto # "" /\ status = "pronto"
       THEN \E first \in FirstDepartments(mol, seriale) :
               partial_order_residues' =
                   DeleteResidues(partial_order_residues, seriale, reparto)
                   (+) SetToBag(PartialResidues(ORDERS_CACHE, order_edits,
                                                first, seriale, reparto))
       ELSE UNCHANGED partial_order_residues
    /\ ev' = [NoEvent EXCEPT
                 !.op = "update_order_status",
                 !.reparto = reparto,
                 !.seriale = seriale,
                 !.deleted = /\ reparto # "" /\ status = "pronto"
                             /\ ResiduesOf(partial_order_residues,
                                           seriale, reparto) # {}]
    /\ UNCHANGED << ORDERS_CACHE, gen, MODIFIED_LINES, mol, job, req,
                    order_reads, order_edits, unavailable_lines, worker,
                    order_archive, refresh_response, status_rows, session, ordini_clienti_csv >>

\* faulty variant: a status row is updated but never created
auto_start_preparation_existing(seriale, reparto) ==
    /\ order_status_by_reparto' =
          [order_status_by_reparto EXCEPT ![<< seriale, reparto >>] =
              IF @ \notin {"", "in_preparazione", "pronto"}
              THEN "in_preparazione" ELSE @]
    /\ order_status' =
          [order_status EXCEPT ![seriale] =
              IF @ \notin {"", "pronto"} THEN "in_preparazione" ELSE @]

\* faulty variant: the department and the order are put back in preparation
\* whatever their status
auto_start_preparation_always(seriale, reparto) ==
    /\ order_status_by_reparto' =
          [order_status_by_reparto EXCEPT
              ![<< seriale, reparto >>] = "in_preparazione"]
    /\ order_status' = [order_status EXCEPT ![seriale] = "in_preparazione"]

\* auto_start_preparation(seriale, operatore, reparto): nothing without a
\* department
auto_start_preparation(seriale, reparto) ==
    IF reparto # ""
    THEN /\ order_status_by_reparto' =
               [order_status_by_reparto EXCEPT ![<< seriale, reparto >>] =
                   IF @ # ""
                   THEN (IF @ \notin {"in_preparazione", "pronto"}
                         THEN "in_preparazione" ELSE @)
                   ELSE "in_preparazione"]
         /\ order_status' =
               [order_status EXCEPT ![seriale] =
                   IF @ # ""
                   THEN (IF @ # "pronto" THEN "in_preparazione" ELSE @)
                   ELSE "in_preparazione"]
    ELSE UNCHANGED << order_status, order_status_by_reparto >>

\* POST /api/ordine/<seriale>/auto-start-preparation by a picker with a
\* department (403 otherwise)
api_auto_start_preparation(seriale, reparto) ==
    /\ reparto # ""
    /\ auto_start_preparation(seriale, reparto)
    /\ ev' = [NoEvent EXCEPT !.op = "api_auto_start_preparation",
                             !.reparto = reparto]
    /\ UNCHANGED << ORDERS_CACHE, gen, MODIFIED_LINES, mol, job, req,
                    requestVars, worker >>

\* the values of the form field status that the handler accepts
PostedStatus == {"in_preparazione", "pronto"}

NextStatus ==
    \/ \E snap \in ConcSnapshots : refresh_orders(snap, TRUE)
    \/ \E seriale \in Serials, reparto \in Reparti \cup {""},
          status \in PostedStatus :
          update_order_status(seriale, reparto, status)
    \/ \E seriale \in Serials, reparto \in Reparti :
          api_auto_start_preparation(seriale, reparto)

SpecStatus == Init /\ [][NextStatus]_vars

\* the status shown for an order, "nuovo" when it has no row
OrderLevel(s) ==
    IF order_status[s] = "" THEN "nuovo" ELSE order_status[s]

\* the roll-up of the statuses of the departments of the cached lines
RollUp(s) ==
    LET reparti == get_ordine_reparti(ORDERS_CACHE, s)
    IN  IF \A r \in reparti : order_status_by_reparto[<< s, r >>] = "pronto"
        THEN "pronto"
        ELSE IF \E r \in reparti :
                   order_status_by_reparto[<< s, r >>] = "in_preparazione"
             THEN "in_preparazione"
             ELSE "nuovo"

\* C10: for every order whose cached lines carry at least one department, the
\* order-level status is the roll-up of its per-department statuses: pronto
\* iff all are pronto, in_preparazione iff not all are pronto and one is
\* in_preparazione, nuovo otherwise.
C10_StatusRollUp ==
    \A s \in Serials :
        get_ordine_reparti(ORDERS_CACHE, s) # {} => OrderLevel(s) = RollUp(s)

\* ------------------------------------------------------------------
\* Requests of the pickers: edits, unavailable lines, order page
\* ------------------------------------------------------------------
\* timestamp = server_default now(): the clock of the database has a
\* resolution, so a new row has the timestamp of the last one (tick FALSE) or
\* a later one
Now(edits, tick) ==
    IF edits = << >> THEN 1
    ELSE edits[Len(edits)].timestamp + (IF tick THEN 1 ELSE 0)

\* OrderEdit(seriale, articolo, quantita_nuova, unita_misura, applied=True)
NewOrderEdit(seriale, articolo, quantita_nuova, unita_misura, timestamp) ==
    [seriale |-> seriale, articolo |-> articolo,
     quantita_nuova |-> quantita_nuova, unita_misura |-> unita_misura,
     timestamp |-> timestamp, applied |-> TRUE]

\* POST /ordine/<seriale>/confirm by a picker of department reparto ("" when
\* the user has none)
propose_confirm(seriale, reparto, articolo, quantita, unita, tick) ==
    /\ Len(order_edits) < MaxEdits
    /\ order_edits' = Append(order_edits,
                             NewOrderEdit(seriale, articolo, quantita, unita,
                                          Now(order_edits, tick)))
    /\ auto_start_preparation(seriale, reparto)
    /\ ev' = [NoEvent EXCEPT !.op = "propose_confirm", !.reparto = reparto,
                             !.seriale = seriale]
    /\ UNCHANGED << ORDERS_CACHE, gen, MODIFIED_LINES, mol, job, req,
                    order_reads, partial_order_residues, unavailable_lines,
                    worker,
                    order_archive, refresh_response, status_rows, session, ordini_clienti_csv >>

\* POST /ordine/<seriale>/edit by a picker
propose_edit(seriale, reparto, articolo, quantita_nuova, unita_misura, tick) ==
    /\ Len(order_edits) < MaxEdits
    /\ order_edits' = Append(order_edits,
                             NewOrderEdit(seriale, articolo, quantita_nuova,
                                          unita_misura, Now(order_edits, tick)))
    /\ auto_start_preparation(seriale, reparto)
    /\ ev' = [NoEvent EXCEPT !.op = "propose_edit", !.reparto = reparto,
                             !.seriale = seriale]
    /\ UNCHANGED << ORDERS_CACHE, gen, MODIFIED_LINES, mol, job, req,
                    order_reads, partial_order_residues, unavailable_lines,
                    worker,
                    order_archive, refresh_response, status_rows, session, ordini_clienti_csv >>

\* articoli_reparto: the articles of the order the user may mark
ArticoliReparto(orders, seriale, reparto) ==
    { orders[i].codice_articolo :
        i \in { j \in DOMAIN orders :
                  /\ orders[j].seriale = seriale
                  /\ (reparto = "" \/ orders[j].codice_reparto = reparto) } }

\* ModifiedOrderLine.query.filter_by(seriale, codice_articolo).first()
HasModifiedLine(table, seriale, articolo) ==
    \E m \in BagToSet(table) :
        m.seriale = seriale /\ m.codice_articolo = articolo

\* ModifiedOrderLine(..., removed=False) copied from the first cached line of
\* the article
MarkedLine(base) ==
    [seriale |-> base.seriale, codice_articolo |-> base.codice_articolo,
     quantita |-> base.quantita, unita_misura |-> base.unita_misura,
     codice_reparto |-> base.codice_reparto, removed |-> FALSE]

\* the UnavailableLine row of (seriale, articolo, reparto) created or updated
SetUnavailable(table, seriale, articolo, reparto, unavailable) ==
    { u \in table : ~(/\ u.seriale = seriale
                      /\ u.codice_articolo = articolo
                      /\ u.reparto = reparto) }
    \cup {[seriale |-> seriale, codice_articolo |-> articolo,
           reparto |-> reparto, unavailable |-> unavailable]}

\* POST /ordine/<seriale>/unavailable by a picker, with a payload of one item
mark_lines_unavailable(seriale, reparto, articolo, unavailable) ==
    /\ IF articolo \in ArticoliReparto(ORDERS_CACHE, seriale, reparto)
       THEN /\ mol' =
                 IF HasModifiedLine(mol, seriale, articolo)
                 THEN mol
                 ELSE LET base ==
                            SelectSeq(ORDERS_CACHE, LAMBDA r :
                                /\ r.seriale = seriale
                                /\ r.codice_articolo = articolo)[1]
                      IN  mol (+) SetToBag({MarkedLine(base)})
            /\ unavailable_lines' =
                 SetUnavailable(unavailable_lines, seriale, articolo,
                                reparto, unavailable)
       ELSE UNCHANGED << mol, unavailable_lines >>
    /\ auto_start_preparation(seriale, reparto)
    /\ ev' = [NoEvent EXCEPT !.op = "mark_lines_unavailable",
                             !.reparto = reparto, !.seriale = seriale]
    /\ UNCHANGED << ORDERS_CACHE, gen, MODIFIED_LINES, job, req,
                    order_reads, order_edits, partial_order_residues, worker,
                    order_archive, refresh_response, status_rows, session, ordini_clienti_csv >>

\* righe_filtrate: the positions of the lines of the order shown to the user
Shown(orders, seriale, reparto) ==
    LET righe == { i \in DOMAIN orders : orders[i].seriale = seriale }
        del_reparto == { i \in righe : orders[i].codice_reparto = reparto }
    IN  IF reparto # "" /\ del_reparto # {} THEN del_reparto ELSE righe

\* articoli_raggruppati: the first line of each article is the cached line
\* itself, and the quantities of the later lines are added to it
GroupByArticle(orders, shown) ==
    [i \in DOMAIN orders |->
        IF /\ i \in shown
           /\ \A j \in shown :
                 orders[j].codice_articolo = orders[i].codice_articolo => j >= i
        THEN [orders[i] EXCEPT !.quantita =
                 @ + SumQuantita(orders,
                         { j \in shown :
                             /\ j > i
                             /\ orders[j].codice_articolo
                                   = orders[i].codice_articolo })]
        ELSE orders[i]]

\* GET /ordine/<seriale> by a user of the given role and department (404
\* when the cache has no line of the order)
order_detail(seriale, role, reparto) ==
    /\ \E i \in DOMAIN ORDERS_CACHE : ORDERS_CACHE[i].seriale = seriale
    /\ \E grouped \in {GroupByArticle(ORDERS_CACHE,
                                      Shown(ORDERS_CACHE, seriale, reparto))} :
          /\ \A i \in DOMAIN grouped : grouped[i].quantita <= MaxQta * PerUnit
          /\ ORDERS_CACHE' = grouped
    /\ order_reads' = order_reads \cup {<< seriale, role, reparto >>}
    /\ order_status' =
          IF /\ << seriale, role, reparto >> \notin order_reads
             /\ role = "picker"
             /\ order_status[seriale] = ""
          THEN [order_status EXCEPT ![seriale] = "letto"]
          ELSE order_status
    /\ ev' = [NoEvent EXCEPT !.op = "order_detail", !.reparto = reparto]
    /\ UNCHANGED << gen, MODIFIED_LINES, mol, job, req,
                    order_status_by_reparto, order_edits,
                    partial_order_residues, unavailable_lines, worker,
                    order_archive, refresh_response, status_rows, session, ordini_clienti_csv >>

\* edited_articoli = {e.articolo: e for e in edits}, edits being the applied
\* edits of the order by descending timestamp: each article keeps the edit
\* that comes last in that list, one of those of the least timestamp (which
\* one of several of the same timestamp is the choice of the database)
edited_articoli(edits, seriale) ==
    LET applied == { i \in DOMAIN edits :
                       edits[i].seriale = seriale /\ edits[i].applied }
    IN  { edited \in [{ edits[i].articolo : i \in applied } -> applied] :
            \A a \in DOMAIN edited :
                /\ edits[edited[a]].articolo = a
                /\ \A j \in applied :
                      edits[j].articolo = a =>
                        edits[edited[a]].timestamp <= edits[j].timestamp }

\* the values of articoli_raggruppati: the first shown line of each article
GroupedLines(orders, shown) ==
    { i \in shown :
        \A j \in shown :
            orders[j].codice_articolo = orders[i].codice_articolo => j >= i }

\* "Aggiorna righe esistenti": the grouped lines, which are the cached lines,
\* take the quantity and the unit of the edit of their article
ApplyEdits(orders, grouped, edits, edited) ==
    [i \in DOMAIN orders |->
        IF i \in grouped /\ orders[i].codice_articolo \in DOMAIN edited
        THEN [orders[i] EXCEPT
                 !.quantita = edits[edited[orders[i].codice_articolo]].quantita_nuova,
                 !.unita_misura = edits[edited[orders[i].codice_articolo]].unita_misura]
        ELSE orders[i]]

\* GET /ordine/<seriale>/print by a cashier (404 when the cache has no line of
\* the order)
print_order(seriale) ==
    /\ \E i \in DOMAIN ORDERS_CACHE : ORDERS_CACHE[i].seriale = seriale
    /\ \E righe \in {Shown(ORDERS_CACHE, seriale, "")} :
       \E grouped \in {GroupByArticle(ORDERS_CACHE, righe)} :
          /\ \A i \in DOMAIN grouped : grouped[i].quantita <= MaxQta * PerUnit
          /\ \E edited \in edited_articoli(order_edits, seriale) :
                ORDERS_CACHE' = ApplyEdits(grouped, GroupedLines(grouped, righe),
                                           order_edits, edited)
    /\ ev' = [NoEvent EXCEPT !.op = "print_order", !.seriale = seriale]
    /\ UNCHANGED << gen, MODIFIED_LINES, mol, job, req, order_status,
                    order_status_by_reparto, requestVars, worker >>

\* the lines ('righe') of _build_order_snapshot(seriale): copies of the
\* grouped lines with the edit of their article, a line for every edited
\* article the order has not, and the removed lines of the table
_build_order_snapshot(orders, table, edits, edited, seriale) ==
    LET righe == Shown(orders, seriale, "")
        summed == GroupByArticle(orders, righe)
        righe_list == GroupedLines(orders, righe)
        existing_codes == { orders[i].codice_articolo : i \in righe_list }
        confirmed(a) ==
            [confermata |-> TRUE,
             quantita_confermata |-> edits[edited[a]].quantita_nuova,
             unita_misura_confermata |-> edits[edited[a]].unita_misura]
    IN  { [codice_articolo |-> summed[i].codice_articolo,
           quantita |-> summed[i].quantita,
           unita_misura |-> summed[i].unita_misura,
           quantita_originale |-> summed[i].quantita, removed |-> FALSE]
          @@ (IF summed[i].codice_articolo \in DOMAIN edited
              THEN confirmed(summed[i].codice_articolo)
              ELSE [confermata |-> FALSE]) : i \in righe_list }
        \cup { [codice_articolo |-> a, quantita |-> 0,
                unita_misura |-> edits[edited[a]].unita_misura,
                removed |-> FALSE, is_added |-> TRUE] @@ confirmed(a) :
                a \in DOMAIN edited \ existing_codes }
        \cup { [codice_articolo |-> m.codice_articolo, quantita |-> m.quantita,
                unita_misura |-> m.unita_misura,
                quantita_originale |-> m.quantita, removed |-> TRUE,
                confermata |-> FALSE] :
                m \in { x \in BagToSet(table) :
                          x.seriale = seriale /\ x.removed } }

\* POST /api/archivio/run-2025: the orders of the cache dated up to the
\* cutoff (seriali) get their snapshot stored in order_archive
api_archivio_run_2025(seriali) ==
    /\ \E edited \in { f \in [seriali ->
                                UNION { edited_articoli(order_edits, s) :
                                          s \in seriali }] :
                          \A s \in seriali :
                              f[s] \in edited_articoli(order_edits, s) } :
          order_archive' =
              [s \in Serials |->
                  IF s \in seriali \cap SerialsOf(ORDERS_CACHE)
                  THEN _build_order_snapshot(ORDERS_CACHE, mol, order_edits,
                                             edited[s], s)
                  ELSE order_archive[s]]
    /\ ev' = [NoEvent EXCEPT !.op = "api_archivio_run_2025"]
    /\ UNCHANGED << ORDERS_CACHE, gen, MODIFIED_LINES, mol, job, req,
                    order_status, order_status_by_reparto, order_reads,
                    order_edits, partial_order_residues, unavailable_lines,
                    worker, refresh_response, status_rows, session, ordini_clienti_csv >>

\* ------------------------------------------------------------------
\* Specification of the automatic triggers
\* ------------------------------------------------------------------
\* the result set loaded when the application starts: order A with one line
\* in each department
StartupSnapshots ==
    { s \in ConcSnapshots : Len(s) = 2 }

NextTriggers ==
    \/ \E snap \in StartupSnapshots : gen = 0 /\ refresh_orders(snap, TRUE)
    \/ \E reparto \in Reparti, status \in PostedStatus :
          update_order_status("A", reparto, status)
    \/ \E reparto \in Reparti : api_auto_start_preparation("A", reparto)
    \/ \E reparto \in Reparti :
          propose_confirm("A", reparto, "a1", PerUnit, "pz", TRUE)
    \/ \E reparto \in Reparti :
          propose_edit("A", reparto, "a1", PerUnit, "pz", TRUE)
    \/ \E reparto \in Reparti :
          mark_lines_unavailable("A", reparto, "a1", TRUE)
    \/ \E reparto \in Reparti : order_detail("A", "picker", reparto)

SpecTriggers == Init /\ [][NextTriggers]_vars

\* the requests that call auto_start_preparation, and the order page
AutomaticTriggers ==
    {"api_auto_start_preparation", "propose_confirm", "propose_edit",
     "mark_lines_unavailable", "order_detail"}

\* C11: a department status that is pronto stops being pronto only in a step
\* of update_order_status, and no automatic trigger or order read changes an
\* order-level pronto.
C11_NoRegression ==
    [][ /\ \A k \in DOMAIN order_status_by_reparto :
              (/\ order_status_by_reparto[k] = "pronto"
               /\ order_status_by_reparto'[k] # "pronto")
              => ev'.op = "update_order_status"
        /\ ev'.op \in AutomaticTriggers
              => \A s \in DOMAIN order_status :
                    order_status[s] = "pronto" => order_status'[s] = "pronto"
      ]_vars

\* the picker of a department that is pronto, in an order that is pronto, has
\* just sent an edit
C11_Witness ==
    /\ ev.op = "propose_edit"
    /\ ev.reparto = "REP01"
    /\ order_edits # << >>
    /\ order_status_by_reparto[<< "A", "REP01" >>] = "pronto"
    /\ order_status["A"] = "pronto"

\* ------------------------------------------------------------------
\* Specification of the residues: the order is loaded at startup, pickers
\* correct quantities and declare their department ready
\* ------------------------------------------------------------------
\* the orders at startup: two lines of order A
ResidueSnapshots ==
    { s \in ErpSnapshots :
        Len(s) = 2 /\ \A i \in DOMAIN s : s[i].seriale = "A" }

\* the quantities typed by the pickers: just below one unit, and two units
EditQuantita == {PerUnit - 2 * Epsilon, PerUnit - Epsilon, 2 * PerUnit}

NextResidues ==
    \/ \E snap \in ResidueSnapshots : gen = 0 /\ refresh_orders(snap, TRUE)
    \/ \E reparto \in Reparti, quantita \in EditQuantita :
          propose_edit("A", reparto, "a1", quantita, "pz", TRUE)
    \/ \E reparto \in Reparti, status \in {"in_preparazione", "pronto"} :
          update_order_status("A", reparto, status)
    \/ mark_lines_unavailable("A", "REP01", "a1", TRUE)

SpecResidues == Init /\ [][NextResidues]_vars

\* a department has just been set to 'pronto' for an order
SetPronto(s, d) ==
    /\ ev'.op = "update_order_status"
    /\ ev'.seriale = s /\ ev'.reparto = d
    /\ order_status_by_reparto'[<< s, d >>] = "pronto"

Requested(s, d, a) ==
    SumQuantita(ORDERS_CACHE,
        { i \in DOMAIN ORDERS_CACHE :
            /\ ORDERS_CACHE[i].seriale = s
            /\ ORDERS_CACHE[i].codice_reparto = d
            /\ ORDERS_CACHE[i].codice_articolo = a })

\* the quantity confirmed by the applied edits attributed to the department
Confirmed(s, d, a, first) ==
    SumQuantitaNuova(order_edits,
        { i \in DOMAIN order_edits :
            /\ order_edits[i].seriale = s /\ order_edits[i].applied
            /\ order_edits[i].articolo = a
            /\ first[a] \in {"", d} })

PageQuantita == {PerUnit, 2 * PerUnit}

PageUnita == {"pz", "kg"}

NextPages ==
    \/ \E snap \in ResidueSnapshots : gen = 0 /\ refresh_orders(snap, TRUE)
    \/ \E articolo \in Articoli, quantita \in PageQuantita,
          unita \in PageUnita, tick \in BOOLEAN :
          propose_edit("A", "REP01", articolo, quantita, unita, tick)
    \/ \E reparto \in Reparti : order_detail("A", "picker", reparto)
    \/ print_order("A")
    \/ api_archivio_run_2025({"A"})

SpecPages == Init /\ [][NextPages]_vars

\* C14: no request changes the article, quantity, unit or department of a
\* cached line: after order_detail or print_order is served, every cached
\* line is as the refresh installed it
C14_RequestsLeaveCache ==
    [][ ev'.op \in {"order_detail", "print_order", "propose_edit"}
          => ORDERS_CACHE' = ORDERS_CACHE ]_vars

\* ------------------------------------------------------------------
\* Lines of removed orders
\* ------------------------------------------------------------------
\* C15: whenever an incremental cycle replaces the cache and no save and no
\* commit of it failed, every line of the old cache whose (serial, article,
\* quantity, unit) no line of the new snapshot carries has a Modified-Line
\* record after the cycle, the lines of an order absent from the snapshot
\* included
C15_DisappearedPersisted ==
    [][ (/\ IncrementalCycle /\ ev'.swapped
         /\ ~ev'.save_failed /\ ~ev'.commit_failed)
          => \A i \in DOMAIN ORDERS_CACHE :
                Sig(ORDERS_CACHE[i]) \notin SigsOf(ev'.snap, ORDERS_CACHE[i].seriale)
                  => Records(mol', ORDERS_CACHE[i].seriale,
                             Sig(ORDERS_CACHE[i])) >= 1 ]_vars

\* ------------------------------------------------------------------
\* Worker processes: each one imports the application module
\* ------------------------------------------------------------------
\* the import of app.py by worker process p: app = Flask(__name__) gives the
\* process a configuration of its own, where SCHEDULER_STARTED is not set,
\* then the scheduler section runs
import_app(p) ==
    /\ ~worker[p].imported
    /\ worker' =
          [worker EXCEPT ![p] =
              IF ~NotImported.SCHEDULER_STARTED
              THEN [imported |-> TRUE, SCHEDULER_STARTED |-> TRUE,
                    schedulers |-> @.schedulers + 1]
              ELSE [@ EXCEPT !.imported = TRUE]]
    /\ ev' = [NoEvent EXCEPT !.op = "import_app"]
    /\ UNCHANGED << ORDERS_CACHE, gen, MODIFIED_LINES, mol, job, req,
                    order_status, order_status_by_reparto, requestVars >>

\* a job of the scheduler of process p can fire
SchedulerRunning(p) == worker[p].schedulers > 0

\* ORDERS_CACHE is the cache of process w1: its scheduler runs the two order
\* jobs on it
NextWorkers ==
    \/ \E p \in Workers : import_app(p)
    \/ \E snap \in ConcSnapshots, ok \in BOOLEAN :
          SchedulerRunning("w1") /\ refresh_orders(snap, ok)
    \/ \E snap \in ConcSnapshots, ok \in BOOLEAN :
          SchedulerRunning("w1") /\ refresh_orders_incremental(snap, ok)

SpecWorkers == Init /\ [][NextWorkers]_vars

RECURSIVE SchedulersStarted(_)
SchedulersStarted(processes) ==
    IF processes = {} THEN 0
    ELSE LET p == CHOOSE p \in processes : TRUE
         IN  worker[p].schedulers + SchedulersStarted(processes \ {p})

\* C16: across all the worker processes the scheduler is started at most
\* once: a second process that imports the application starts no second one
C16_SchedulerOnce == SchedulersStarted(Workers) <= 1

\* ------------------------------------------------------------------
\* Writers of the Modified-Line table
\* ------------------------------------------------------------------
\* C17: no step removes or changes a Modified-Line record, and only a cycle of
\* refresh_orders_incremental adds one: no request of an operator does
C17_ModifiedLinesWriter ==
    [][ /\ \A m \in BagToSet(mol) : CopiesIn(m, mol') >= CopiesIn(m, mol)
        /\ mol' # mol => ev'.op = "incr" ]_vars

\* ------------------------------------------------------------------
\* The edit applied to an article
\* ------------------------------------------------------------------
\* the applied edits of (s, a) of the greatest timestamp
LatestEdits(s, a) ==
    { i \in DOMAIN order_edits :
        /\ order_edits[i].seriale = s /\ order_edits[i].articolo = a
        /\ order_edits[i].applied
        /\ \A j \in DOMAIN order_edits :
              (/\ order_edits[j].seriale = s /\ order_edits[j].articolo = a
               /\ order_edits[j].applied)
                => order_edits[j].timestamp <= order_edits[i].timestamp }

\* C18: the quantity and unit that print_order gives to the line of an edited
\* article, and those that _build_order_snapshot stores as confirmed, are
\* those of an applied edit of the greatest timestamp of that (serial, article)
C18_LatestEditApplied ==
    [][ /\ ev'.op = "print_order" =>
              \A i \in GroupedLines(ORDERS_CACHE,
                                     Shown(ORDERS_CACHE, ev'.seriale, "")) :
                  LatestEdits(ev'.seriale, ORDERS_CACHE[i].codice_articolo) # {}
                    => \E e \in LatestEdits(ev'.seriale,
                                            ORDERS_CACHE[i].codice_articolo) :
                          /\ ORDERS_CACHE'[i].quantita
                                = order_edits[e].quantita_nuova
                          /\ ORDERS_CACHE'[i].unita_misura
                                = order_edits[e].unita_misura
        /\ ev'.op = "api_archivio_run_2025" =>
              \A s \in Serials :
                  order_archive'[s] # order_archive[s] =>
                    \A r \in order_archive'[s] :
                        r.confermata =>
                          \E e \in LatestEdits(s, r.codice_articolo) :
                              /\ r.quantita_confermata
                                    = order_edits[e].quantita_nuova
                              /\ r.unita_misura_confermata
                                    = order_edits[e].unita_misura ]_vars

\* ------------------------------------------------------------------
\* Specification of the enrichment: the two refreshes on result sets whose
\* article is known, without department, blank, unknown, or makes the
\* lookup raise
\* ------------------------------------------------------------------
EnrichArticoli == {"a1", "a3", "", " ", "zz", "a9"}

\* result sets of one line of order A
EnrichSnapshots ==
    { << l >> : l \in [seriale : {"A"}, codice_articolo : EnrichArticoli,
                       quantita : Quantita, unita_misura : Unita] }

NextEnrich ==
    \/ \E snap \in EnrichSnapshots, ok \in BOOLEAN : refresh_orders(snap, ok)
    \/ \E snap \in EnrichSnapshots, ok \in BOOLEAN :
          refresh_orders_incremental(snap, ok)

SpecEnrich == Init /\ [][NextEnrich]_vars

\* the step installs the list built by the given refresh
Installs(op) == ev'.op = op /\ ev'.swapped

\* an article code that is empty or only spaces
BlankCode(codice) == codice \in {"", " "}

\* C19 as stated: a line with a blank article code has no department after
\* the incremental refresh and the default department after the full reload
C19_Original ==
    [][ /\ Installs("incr") =>
              \A i \in DOMAIN ORDERS_CACHE' :
                  BlankCode(ORDERS_CACHE'[i].codice_articolo)
                    => ORDERS_CACHE'[i].codice_reparto = None
        /\ Installs("full") =>
              \A i \in DOMAIN ORDERS_CACHE' :
                  BlankCode(ORDERS_CACHE'[i].codice_articolo)
                    => ORDERS_CACHE'[i].codice_reparto = "REP05" ]_vars

\* C19 amended: a line with a blank article code has no department after
\* either refresh; a line whose article has a row without department in the
\* reference table gets the empty department from the incremental refresh
\* and REP05 from the full reload
C19_BlankArticle ==
    [][ \A op \in {"full", "incr"} :
          Installs(op) =>
            \A i \in DOMAIN ORDERS_CACHE' :
                /\ BlankCode(ORDERS_CACHE'[i].codice_articolo)
                      => ORDERS_CACHE'[i].codice_reparto = None
                /\ (/\ ORDERS_CACHE'[i].codice_articolo \in DOMAIN ArticoloReparto
                     /\ ORDERS_CACHE'[i].codice_articolo \notin LookupRaises
                     /\ ArticoloReparto[ORDERS_CACHE'[i].codice_articolo] = "")
                      => ORDERS_CACHE'[i].codice_reparto
                            = (IF op = "full" THEN "REP05" ELSE "") ]_vars

\* the full reload has installed a line whose article code is only a space
C19_Witness ==
    /\ ev.op = "full" /\ ev.swapped
    /\ \E i \in DOMAIN ORDERS_CACHE :
          /\ ORDERS_CACHE[i].codice_articolo = " "
          /\ ORDERS_CACHE[i].codice_reparto = None

\* C20: after refresh_orders and after refresh_orders_incremental, a line
\* whose non-blank article code has no row in the reference table, or makes
\* the lookup raise, has department REP05, no second unit and no second
\* quantity
C20_UnknownArticle ==
    [][ \A op \in {"full", "incr"} :
          Installs(op) =>
            \A i \in DOMAIN ORDERS_CACHE' :
                (/\ ~BlankCode(ORDERS_CACHE'[i].codice_articolo)
                 /\ \/ ORDERS_CACHE'[i].codice_articolo \notin DOMAIN ArticoloReparto
                    \/ ORDERS_CACHE'[i].codice_articolo \in LookupRaises)
                  => /\ ORDERS_CACHE'[i].codice_reparto = "REP05"
                     /\ ORDERS_CACHE'[i].unita_misura_2 = None
                     /\ ORDERS_CACHE'[i].quantita_um2 = NoQuantita ]_vars

\* the incremental refresh has installed a line of the unknown article zz
C20_Witness ==
    /\ ev.op = "incr" /\ ev.swapped /\ ~ev.bootstrap
    /\ \E i \in DOMAIN ORDERS_CACHE :
          /\ ORDERS_CACHE[i].codice_articolo = "zz"
          /\ ORDERS_CACHE[i].codice_reparto = "REP05"
          /\ ORDERS_CACHE[i].unita_misura_2 = None

\* ------------------------------------------------------------------
\* SpecConvert: the refresh jobs over result sets whose first line is of an
\* article with a second unit, with a quantity that is a number, zero,
\* missing or a text; the line after it is one unit of a4
\* ------------------------------------------------------------------
ConvertArticoli == {"a1", "a4", "a5", "a6", "a7"}

ConvertQuantita == {PerUnit, 0, NoQuantita, BadQuantita}

LastLine ==
    [seriale |-> "A", codice_articolo |-> "a4", quantita |-> PerUnit,
     unita_misura |-> "pz"]

\* every article with one unit, and a1 with every quantity
ConvertSnapshots ==
    { << l, LastLine >> :
        l \in { x \in [seriale : {"A"}, codice_articolo : ConvertArticoli,
                       quantita : ConvertQuantita, unita_misura : Unita] :
                  x.codice_articolo = "a1" \/ x.quantita = PerUnit } }

NextConvert ==
    \/ \E snap \in ConvertSnapshots, ok \in BOOLEAN : refresh_orders(snap, ok)
    \/ \E snap \in ConvertSnapshots, ok \in BOOLEAN :
          refresh_orders_incremental(snap, ok)

SpecConvert == Init /\ [][NextConvert]_vars

\* the article of the line has a row with a second unit
HasSecondUnit(riga) ==
    /\ riga.codice_articolo \in DOMAIN SecondUnit
    /\ SecondUnit[riga.codice_articolo].unita_misura_2 # None

\* the operator of the row is multiply or divide and its factor is present
\* and not zero
Convertible(riga) ==
    /\ SecondUnit[riga.codice_articolo].operatore_conversione \in {"*", "/"}
    /\ SecondUnit[riga.codice_articolo].fattore_conversione # 0

\* C21 as stated: a line whose article has a second unit has a second
\* quantity iff the operator is multiply or divide, the factor is present and
\* not zero, the quantity is present and is a number
C21_Original ==
    [][ \A op \in {"full", "incr"} :
          Installs(op) =>
            \A i \in DOMAIN ORDERS_CACHE' :
                HasSecondUnit(ORDERS_CACHE'[i]) =>
                    (ORDERS_CACHE'[i].quantita_um2 # NoQuantita
                        <=> /\ Convertible(ORDERS_CACHE'[i])
                            /\ ORDERS_CACHE'[i].quantita
                                  \notin {NoQuantita, BadQuantita}) ]_vars

\* C21 amended: after refresh_orders and after refresh_orders_incremental, a
\* line whose article has a second unit has a second quantity iff the
\* operator is multiply or divide, the factor is present and not zero, and
\* the quantity is a number other than zero; in every other case the second
\* quantity is empty, and the line after it is still enriched: it has its
\* department and half a box as second quantity
C21_ConversionDegrades ==
    [][ \A op \in {"full", "incr"} :
          Installs(op) =>
            /\ \A i \in DOMAIN ORDERS_CACHE' :
                  HasSecondUnit(ORDERS_CACHE'[i]) =>
                    /\ ORDERS_CACHE'[i].unita_misura_2
                          = SecondUnit[ORDERS_CACHE'[i].codice_articolo].unita_misura_2
                    /\ ORDERS_CACHE'[i].quantita_um2 # NoQuantita
                          <=> /\ Convertible(ORDERS_CACHE'[i])
                              /\ ORDERS_CACHE'[i].quantita
                                    \notin {NoQuantita, BadQuantita, 0}
            /\ Len(ORDERS_CACHE') = 2
            /\ ORDERS_CACHE'[2].codice_reparto = "REP01"
            /\ ORDERS_CACHE'[2].unita_misura_2 = "ct"
            /\ ORDERS_CACHE'[2].quantita_um2 = PerUnit \div 2 ]_vars

\* the incremental refresh has installed a line of a1 whose quantity is a
\* text, without second quantity, and the line after it with its own
C21_Witness ==
    /\ ev.op = "incr" /\ ev.swapped
    /\ Len(ORDERS_CACHE) = 2
    /\ ORDERS_CACHE[1].codice_articolo = "a1"
    /\ ORDERS_CACHE[1].quantita = BadQuantita
    /\ ORDERS_CACHE[1].quantita_um2 = NoQuantita
    /\ ORDERS_CACHE[2].quantita_um2 = PerUnit \div 2

\* ------------------------------------------------------------------
\* SpecAdmin: the scheduler jobs and the admin route that reloads the article
\* reference table
\* ------------------------------------------------------------------
Roles == {"cassiere", "cassa", "picker"}

\* GET and POST /admin/refresh-reparti, served by the thread of the request.
\* 403 for a role other than cassiere and cassa; GET shows a form; POST reads
\* the articles of the ERP (connected: pyodbc.connect succeeds), replaces the
\* rows of the reference table by them (the articles of the ERP are the rows
\* of ArticoloReparto, so the table holds the same rows afterwards) and then
\* calls refresh_orders() itself: the script runs and the list is installed
\* before the response is sent. A failure of the script is answered with 500.
refresh_reparti(role, method, connected, snap, ok) ==
    /\ gen < MaxGen
    /\ IF role \notin {"cassiere", "cassa"} \/ method = "GET" \/ ~connected
       THEN /\ UNCHANGED << ORDERS_CACHE, gen >>
            /\ ev' = [NoEvent EXCEPT !.op = "refresh_reparti"]
       ELSE IF _run_script(ok)
       THEN /\ UNCHANGED << ORDERS_CACHE, gen >>
            /\ ev' = [NoEvent EXCEPT !.op = "refresh_reparti",
                                     !.producer_failed = TRUE]
       ELSE /\ ORDERS_CACHE' = EnrichFull(_load_csv(CsvAfterScript(snap)))
            /\ gen' = gen + 1
            /\ ev' = [NoEvent EXCEPT !.op = "refresh_reparti",
                                     !.swapped = TRUE]
    /\ UNCHANGED << MODIFIED_LINES, mol, job, req,
                    order_status, order_status_by_reparto,
                    requestVars, worker >>

NextAdmin ==
    \/ \E snap \in ErpSnapshots : refresh_orders(snap, TRUE)
    \/ \E snap \in FailedRuns : refresh_orders(snap, FALSE)
    \/ \E snap \in ErpSnapshots : refresh_orders_incremental(snap, TRUE)
    \/ \E snap \in FailedRuns : refresh_orders_incremental(snap, FALSE)
    \/ \E role \in Roles, method \in {"GET", "POST"}, connected \in BOOLEAN,
          snap \in ErpSnapshots :
          refresh_reparti(role, method, connected, snap, TRUE)
    \/ \E snap \in FailedRuns :
          refresh_reparti("cassiere", "POST", TRUE, snap, FALSE)

SpecAdmin == Init /\ [][NextAdmin]_vars

\* the step ran the extraction script: it installed the list of the run or
\* the run failed
ProducerRan == ev'.swapped \/ ev'.producer_failed

\* the steps of the jobs the background scheduler runs
SchedulerJobs == {"full", "incr"}

\* C22: the extraction script is run only in a step of a scheduler job,
\* never in a step of a thread that serves an HTTP request
C22_ProducerOnScheduler ==
    [][ ProducerRan => ev'.op \in SchedulerJobs ]_vars

\* ------------------------------------------------------------------
\* SpecPoll: the scheduler jobs and the clients that poll GET /api/refresh
\* ------------------------------------------------------------------
\* the serials of the rows of the Modified-Line table
SerialsOfRows(table) == { r.seriale : r \in BagToSet(table) }

\* GET /api/refresh: the serials of the rows created in the last five minutes
\* (recent) and the keys of MODIFIED_LINES; nothing is written or cleared
api_refresh(recent) ==
    /\ recent \subseteq SerialsOfRows(mol)
    /\ \E modified_orders \in {recent \cup DOMAIN MODIFIED_LINES} :
          refresh_response' = [has_changes |-> modified_orders # {},
                               modified_orders |-> modified_orders]
    /\ ev' = [NoEvent EXCEPT !.op = "api_refresh"]
    /\ UNCHANGED << ORDERS_CACHE, gen, MODIFIED_LINES, mol, job, req,
                    order_status, order_status_by_reparto, order_reads,
                    order_edits, partial_order_residues, unavailable_lines,
                    worker, order_archive, status_rows, session, ordini_clienti_csv >>

NextPoll ==
    \/ \E snap \in ErpSnapshots : refresh_orders(snap, TRUE)
    \/ \E snap \in FailedRuns : refresh_orders(snap, FALSE)
    \/ \E snap \in ErpSnapshots : refresh_orders_incremental(snap, TRUE)
    \/ \E snap \in FailedRuns : refresh_orders_incremental(snap, FALSE)
    \/ \E recent \in SUBSET Serials : api_refresh(recent)

\* the page polls on a timer: a poll that would answer something else than
\* the last one is eventually made, also the poll made when every row is
\* older than five minutes
SpecPoll ==
    /\ Init /\ [][NextPoll]_vars
    /\ WF_vars(api_refresh({}))

\* C23: once the reconciliation cycles stop detecting changes, the polls
\* eventually answer has_changes = false. The cycles detect finitely many
\* changes in a behaviour, so every answer has_changes = true is followed by
\* an answer has_changes = false
C23_PollsSettle ==
    refresh_response.has_changes ~> ~refresh_response.has_changes

\* ------------------------------------------------------------------
\* Automatic start of preparation (under SpecTriggers)
\* ------------------------------------------------------------------
\* the requests of a picker that change the data of an order
MutatingActions == {"propose_confirm", "propose_edit", "mark_lines_unavailable"}

\* C24: after propose_confirm, propose_edit or mark_lines_unavailable on
\* order s by a picker of department d, the status of (s, d) is
\* in_preparazione or pronto: it is not nuovo, not letto and not absent
C24_AutoStart ==
    [][ (ev'.op \in MutatingActions /\ ev'.reparto # "")
          => order_status_by_reparto'[<< ev'.seriale, ev'.reparto >>]
                \in {"in_preparazione", "pronto"} ]_vars

\* the picker of REP02 has marked a line of order A, which had been read but
\* had no status in REP02, and the department is now in preparation
C24_Witness ==
    /\ ev.op = "mark_lines_unavailable"
    /\ ev.seriale = "A" /\ ev.reparto = "REP02"
    /\ order_status_by_reparto[<< "A", "REP02" >>] = "in_preparazione"
    /\ order_status_by_reparto[<< "A", "REP01" >>] = ""
    /\ order_reads # {}

\* ------------------------------------------------------------------
\* SpecRows: the requests that write a status, in the steps the database
\* sees. Each request runs in its own session: it queries the row of its
\* department, then the row of the order, and commits; what it adds is
\* inserted and what it changes is updated when the session is flushed, which
\* the model places at the commit. The other specifications take each
\* request as one step and the two tables as functions of their key.
\* ------------------------------------------------------------------
\* the rows of (seriale, reparto) in order_status_by_reparto
RowsByReparto(table, seriale, reparto) ==
    { r \in BagToSet(table) : r.seriale = seriale /\ r.reparto = reparto }

\* the rows of seriale in order_status
RowsGeneral(table, seriale) ==
    { r \in BagToSet(table) : r.seriale = seriale }

\* query.filter_by(...).first(): the status of a row found (any of them,
\* were there several), "" when there is none
FirstStatus(rows) ==
    IF rows = {} THEN {""} ELSE { r.status : r \in rows }

\* faulty variant: the tables have no unique constraint
UniqueViolation_none(rows) == FALSE

\* UniqueConstraint('seriale', 'reparto') and unique=True on
\* OrderStatus.seriale: the insert of a row whose key is in the table fails
UniqueViolation(rows) == rows # {}

\* the row object the session loaded gets the new status
UpdateRow(table, rows, status) ==
    IF rows = {} THEN table
    ELSE LET r == CHOOSE x \in rows : TRUE
         IN  (table (-) SetToBag({r}))
                (+) SetToBag({[r EXCEPT !.status = status]})

\* the first query of update_order_status and of auto_start_preparation: the
\* row of the department
status_query(t, op, seriale, reparto, status) ==
    /\ session[t].pc = "idle"
    /\ \E existing_status \in
            FirstStatus(RowsByReparto(status_rows.by_reparto, seriale, reparto)) :
          session' = [session EXCEPT ![t] =
                        [NoSession EXCEPT !.pc = "queried", !.op = op,
                                          !.seriale = seriale,
                                          !.reparto = reparto,
                                          !.status = status,
                                          !.existing_status = existing_status]]
    /\ UNCHANGED << ORDERS_CACHE, gen, MODIFIED_LINES, mol, ev, job, req,
                    order_status, order_status_by_reparto, order_reads,
                    order_edits, partial_order_residues, unavailable_lines,
                    worker, order_archive, refresh_response, status_rows,
                    ordini_clienti_csv >>

\* the status the department has for the session: the one it is about to
\* write for its own department, the committed one for the others
StatusSeen(table, own, seriale, reparto) ==
    IF reparto = own.reparto
    THEN {IF own.op = "update_order_status" \/ own.existing_status = ""
          THEN own.status ELSE own.existing_status}
    ELSE FirstStatus(RowsByReparto(table, seriale, reparto))

\* the queries that follow: the rows of the departments of the order
\* (update_order_status only) and the row of the order
status_query_general(t) ==
    /\ session[t].pc = "queried"
    /\ \E general_status \in
            FirstStatus(RowsGeneral(status_rows.general, session[t].seriale)),
          seen \in [get_ordine_reparti(ORDERS_CACHE, session[t].seriale)
                     -> {"", "in_preparazione", "pronto"}] :
          /\ \A d \in DOMAIN seen :
                seen[d] \in StatusSeen(status_rows.by_reparto, session[t],
                                       session[t].seriale, d)
          /\ session' = [session EXCEPT ![t] =
                [@ EXCEPT !.pc = "ready",
                          !.general_status = general_status,
                          !.tutti_pronti =
                              /\ session[t].op = "update_order_status"
                              /\ \A d \in DOMAIN seen : seen[d] = "pronto"]]
    /\ UNCHANGED << ORDERS_CACHE, gen, MODIFIED_LINES, mol, ev, job, req,
                    order_status, order_status_by_reparto, order_reads,
                    order_edits, partial_order_residues, unavailable_lines,
                    worker, order_archive, refresh_response, status_rows,
                    ordini_clienti_csv >>

\* the status the session writes to the row of its department, "" when it
\* leaves the row as it is
WrittenByReparto(own) ==
    IF own.op = "update_order_status" THEN own.status
    ELSE IF own.existing_status \notin {"in_preparazione", "pronto"}
    THEN "in_preparazione" ELSE ""

\* the status the session writes to the row of the order
WrittenGeneral(own) ==
    IF own.op = "update_order_status"
    THEN (IF own.general_status = ""
          THEN (IF own.tutti_pronti THEN "pronto" ELSE "in_preparazione")
          ELSE IF own.tutti_pronti THEN "pronto"
          ELSE IF own.status = "in_preparazione" THEN "in_preparazione"
          ELSE "")
    ELSE IF own.general_status # "pronto" THEN "in_preparazione" ELSE ""

\* one table after the flush: the row found is updated, a row not found is
\* inserted
Flushed(table, rows, found, written, new_row) ==
    IF found # ""
    THEN (IF written # "" THEN UpdateRow(table, rows, written) ELSE table)
    ELSE table (+) SetToBag({new_row})

\* db.session.commit(): both tables are written, or an insert breaks a
\* unique constraint and the transaction is rolled back (update_order_status
\* answers 500, auto_start_preparation catches the exception)
status_commit(t) ==
    /\ session[t].pc = "ready"
    /\ \E own \in {session[t]} :
       \E rows \in {RowsByReparto(status_rows.by_reparto, own.seriale,
                                  own.reparto)},
          general \in {RowsGeneral(status_rows.general, own.seriale)} :
          IF \/ own.existing_status = "" /\ UniqueViolation(rows)
             \/ own.general_status = "" /\ UniqueViolation(general)
          THEN /\ session' = [session EXCEPT ![t] =
                     [own EXCEPT !.pc = "idle", !.outcome = "rolled_back"]]
               /\ UNCHANGED << status_rows, partial_order_residues >>
          ELSE /\ status_rows' =
                     [by_reparto |->
                         Flushed(status_rows.by_reparto, rows,
                                 own.existing_status, WrittenByReparto(own),
                                 [seriale |-> own.seriale,
                                  reparto |-> own.reparto,
                                  status |-> WrittenByReparto(own)]),
                      general |->
                         Flushed(status_rows.general, general,
                                 own.general_status, WrittenGeneral(own),
                                 [seriale |-> own.seriale,
                                  status |-> WrittenGeneral(own)])]
               /\ session' = [session EXCEPT ![t] =
                     [own EXCEPT !.pc = "idle", !.outcome = "committed"]]
               /\ IF own.op = "update_order_status" /\ own.status = "pronto"
                  THEN \E first \in FirstDepartments(mol, own.seriale) :
                         partial_order_residues' =
                           DeleteResidues(partial_order_residues,
                                          own.seriale, own.reparto)
                           (+) SetToBag(PartialResidues(ORDERS_CACHE,
                                   order_edits, first, own.seriale,
                                   own.reparto))
                  ELSE UNCHANGED partial_order_residues
    /\ UNCHANGED << ORDERS_CACHE, gen, MODIFIED_LINES, mol, ev, job, req,
                    order_status, order_status_by_reparto, order_reads,
                    order_edits, unavailable_lines,
                    worker, order_archive, refresh_response,
                    ordini_clienti_csv >>

NextRows ==
    \/ \E snap \in StartupSnapshots : gen = 0 /\ refresh_orders(snap, TRUE)
    \/ \E t \in Threads, reparto \in Reparti, status \in PostedStatus :
          status_query(t, "update_order_status", "A", reparto, status)
    \/ \E t \in Threads, reparto \in Reparti :
          status_query(t, "auto_start_preparation", "A", reparto,
                       "in_preparazione")
    \/ \E t \in Threads : status_query_general(t)
    \/ \E t \in Threads : status_commit(t)

SpecRows == Init /\ [][NextRows]_vars

\* the number of rows of a set of rows of a table
CountRows(table, rows) ==
    LET RECURSIVE Sum(_)
        Sum(S) == IF S = {} THEN 0
                  ELSE LET r == CHOOSE x \in S : TRUE
                       IN  CopiesIn(r, table) + Sum(S \ {r})
    IN  Sum(rows)

\* C25: order_status_by_reparto holds at most one row for each (serial,
\* department) and order_status at most one row for each serial, whatever
\* the interleaving of the requests
C25_OneRowPerKey ==
    /\ \A seriale \in Serials, reparto \in Reparti :
          CountRows(status_rows.by_reparto,
                    RowsByReparto(status_rows.by_reparto, seriale, reparto)) <= 1
    /\ \A seriale \in Serials :
          CountRows(status_rows.general,
                    RowsGeneral(status_rows.general, seriale)) <= 1

\* two requests for (A, REP01) both found no row; the first has committed
\* and the other one has been rolled back
C25_Witness ==
    /\ \A t \in Threads :
          /\ session[t].pc = "idle"
          /\ session[t].seriale = "A" /\ session[t].reparto = "REP01"
          /\ session[t].existing_status = ""
    /\ session["t1"].op = "update_order_status"
    /\ session["t1"].outcome = "committed"
    /\ session["t2"].op = "auto_start_preparation"
    /\ session["t2"].outcome = "rolled_back"
    /\ BagCardinality(status_rows.by_reparto) = 1

\* ------------------------------------------------------------------
\* SpecViews: the ERP holds the same order all along (two lines of article
\* a1), the pages of the order are served and pickers correct quantities
\* between the reconciliation cycles
\* ------------------------------------------------------------------
ViewSnapshot ==
    << [seriale |-> "A", codice_articolo |-> "a1", quantita |-> PerUnit,
        unita_misura |-> "pz"],
       [seriale |-> "A", codice_articolo |-> "a1", quantita |-> PerUnit,
        unita_misura |-> "pz"] >>

NextViews ==
    \/ gen = 0 /\ refresh_orders(ViewSnapshot, TRUE)
    \/ \E ok \in BOOLEAN : refresh_orders_incremental(ViewSnapshot, ok)
    \/ \E quantita \in PageQuantita :
          propose_edit("A", "REP01", "a1", quantita, "pz", TRUE)
    \/ order_detail("A", "picker", "REP01")
    \/ print_order("A")

SpecViews == Init /\ [][NextViews]_vars

\* C26: while the ERP data of an order does not change, whatever pages of it
\* were served since the last cycle, a reconciliation cycle does not flag the
\* order as changed and adds no row to the Modified-Line table
C26_ViewsNotAudited ==
    [][ (ev'.op = "incr" /\ ~ev'.producer_failed)
          => /\ ~ev'.orders_modified
             /\ mol' = mol
             /\ MODIFIED_LINES' = MODIFIED_LINES ]_vars

\* ------------------------------------------------------------------
\* The cache after a cycle (under Spec)
\* ------------------------------------------------------------------
\* C27: after every refresh_orders_incremental cycle whose producer did not
\* fail, the orders of ORDERS_CACHE are the orders of the snapshot the cycle
\* fetched, also when an order vanished and another one with as many lines
\* appeared
C27_CacheTracksSnapshot ==
    [][ (ev'.op = "incr" /\ ~ev'.producer_failed)
          => SerialsOf(ORDERS_CACHE') = SerialsOf(ev'.snap) ]_vars

\* ------------------------------------------------------------------
\* SpecFile: the two order jobs in the steps the file system sees. Each job
\* runs estrai_ordini.py, which opens ordini_clienti.csv for writing (the
\* file is emptied), writes header and rows and closes it; then the job loads
\* the file. Both jobs use the same path and nothing keeps one from starting
\* while the other runs. The runs of the script end with exit code 0.
\* ------------------------------------------------------------------
Jobs == {"full", "incr"}

\* the script of job j has fetched snap and opens the file: CSV_PATH.open("w")
estrai_ordini_open(j, snap) ==
    /\ job[j].pc = "idle"
    /\ gen + Cardinality(Running) < MaxGen
    /\ job' = [job EXCEPT ![j] = [Idle EXCEPT !.pc = "script", !.snap = snap]]
    /\ ordini_clienti_csv' = << >>
    /\ UNCHANGED << ORDERS_CACHE, gen, MODIFIED_LINES, mol, ev, req,
                    order_status, order_status_by_reparto, order_reads,
                    order_edits, partial_order_residues, unavailable_lines,
                    worker, order_archive, refresh_response, status_rows,
                    session >>

\* writer.writerows(processed_rows) and the end of the with block: the rows
\* of the run are in the file
estrai_ordini_write(j) ==
    /\ job[j].pc = "script"
    /\ job' = [job EXCEPT ![j].pc = "written"]
    /\ ordini_clienti_csv' = WriteCsv(job[j].snap)
    /\ UNCHANGED << ORDERS_CACHE, gen, MODIFIED_LINES, mol, ev, req,
                    order_status, order_status_by_reparto, order_reads,
                    order_edits, partial_order_residues, unavailable_lines,
                    worker, order_archive, refresh_response, status_rows,
                    session >>

\* _load_csv of the file as it is now, and the enrichment loop of the job
load_csv(j) ==
    /\ job[j].pc = "written"
    /\ job' = [job EXCEPT ![j].pc = "loaded",
                          ![j].new_orders =
                              IF j = "full"
                              THEN EnrichFull(_load_csv(ordini_clienti_csv))
                              ELSE EnrichIncr(_load_csv(ordini_clienti_csv))]
    /\ UNCHANGED << ORDERS_CACHE, gen, MODIFIED_LINES, mol, ev, req,
                    order_status, order_status_by_reparto, order_reads,
                    order_edits, partial_order_residues, unavailable_lines,
                    worker, order_archive, refresh_response, status_rows,
                    session, ordini_clienti_csv >>

NextFile ==
    \/ \E j \in Jobs, snap \in ConcSnapshots : estrai_ordini_open(j, snap)
    \/ \E j \in Jobs : estrai_ordini_write(j)
    \/ \E j \in Jobs : load_csv(j)
    \/ refresh_orders_swap
    \/ refresh_orders_incremental_read
    \/ refresh_orders_incremental_swap

SpecFile == Init /\ [][NextFile]_vars

\* C28: the list a job loads, and then installs or diffs, is the whole
\* output of its own run of the script: not the output of the other job and
\* not a file that is still being written
C28_OwnSnapshot ==
    [][ \A j \in Jobs :
          (job[j].pc = "written" /\ job'[j].pc = "loaded")
            => Produced(job'[j].new_orders) = Produced(job[j].snap) ]_vars

\* ------------------------------------------------------------------
\* Order-level pronto (under SpecStatus)
\* ------------------------------------------------------------------
\* C29: update_order_status by a picker of a department makes the status of
\* the order pronto only if the cached lines of the order carry at least one
\* department and every such department is pronto; and when the picker posts
\* in_preparazione for an order none of whose cached lines carries a
\* department, the status of the order is not pronto afterwards
C29_NoVacuousPronto ==
    [][ (ev'.op = "update_order_status" /\ ev'.reparto # "")
          => LET s == ev'.seriale
                 reparti == get_ordine_reparti(ORDERS_CACHE, s)
             IN  /\ (order_status[s] # "pronto" /\ order_status'[s] = "pronto")
                       => /\ reparti # {}
                          /\ \A d \in reparti :
                                order_status_by_reparto'[<< s, d >>] = "pronto"
                 /\ (/\ order_status_by_reparto'[<< s, ev'.reparto >>]
                            = "in_preparazione"
                      /\ reparti = {})
                       => order_status'[s] # "pronto" ]_vars

\* ------------------------------------------------------------------
\* SpecMarks: the order is loaded at startup, the picker of REP01 marks
\* article a1 as unavailable, the reconciliation cycles run
\* ------------------------------------------------------------------
NextMarks ==
    \/ \E snap \in StartupSnapshots : gen = 0 /\ refresh_orders(snap, TRUE)
    \/ \E unavailable \in BOOLEAN :
          mark_lines_unavailable("A", "REP01", "a1", unavailable)
    \/ \E snap \in ConcSnapshots, ok \in BOOLEAN :
          refresh_orders_incremental(snap, ok)

SpecMarks == Init /\ [][NextMarks]_vars

\* the table has a row of the order and the article with removed = false
MarkedUnavailable(table, seriale, articolo) ==
    \E m \in BagToSet(table) :
        /\ m.seriale = seriale /\ m.codice_articolo = articolo
        /\ ~m.removed

\* C30: when a line whose article was marked unavailable (a Modified-Line
\* row with removed = false exists for its serial and article) is in the
\* cache and not in the snapshot of a cycle that detects the change of its
\* order, and no save and no commit of the cycle fails, the table holds a
\* row with removed = true for the (serial, article, quantity, unit) of the
\* line after the cycle
C30_RemovalRecorded ==
    [][ (/\ IncrementalCycle /\ ev'.orders_modified
         /\ ~ev'.save_failed /\ ~ev'.commit_failed)
          => \A i \in DOMAIN ORDERS_CACHE :
                (/\ ORDERS_CACHE[i].seriale \in SerialsOf(ev'.snap)
                 /\ Sig(ORDERS_CACHE[i])
                       \notin SigsOf(ev'.snap, ORDERS_CACHE[i].seriale)
                 /\ MarkedUnavailable(mol, ORDERS_CACHE[i].seriale,
                                      ORDERS_CACHE[i].codice_articolo))
                  => \E m \in BagToSet(mol') :
                        /\ m.seriale = ORDERS_CACHE[i].seriale
                        /\ Sig(m) = Sig(ORDERS_CACHE[i])
                        /\ m.removed ]_vars

====
